---------------------------- MODULE Spec2Model ----------------------------
(***************************************************************************)
(* A model of the particle simulation and quality-adaptive rendering       *)
(* pipeline of neersarovar: Particle3D, ParticlePool, ParticleSystem, the  *)
(* main frame loop, QualityGovernor, StateManager and the automatic        *)
(* adaptation of LakeVisualizationSystem.                                  *)
(*                                                                         *)
(* Time is counted in whole units (delta, age and lifespan are integers).  *)
(* Fractions are kept exact in hundredths: transitionProgress 1.0 is 100,  *)
(* a particleMultiplier of 0.7 is 70.                                      *)
(***************************************************************************)
EXTENDS Integers, Sequences, FiniteSets, TLC

VARIABLES
    particlePool,   \* StateManager.particlePool: the ParticlePool object
    systems,        \* StateManager.particleSystems: lake id -> ParticleSystem
    systemOrder,    \* insertion order of StateManager.particleSystems (a Map)
    held,           \* particles a direct caller of the pool acquired and still holds
    updateLog,      \* per lake, what the last ParticleSystem.update kept and added
    particle,       \* one Particle3D object driven through its own methods
    lastCall,       \* the last direct call of an API: [op, arg, result]
    governor,       \* StateManager.qualityGovernor: the QualityGovernor object
    globals,        \* PERFORMANCE_THRESHOLDS.maxActiveParticles, window.renderScale
    notified,       \* the last update notifySubscribers broadcast
    setCalls,       \* the number of setQualityLevel calls made on the governor
    lvs,            \* StateManager.lakeVisualizationSystem
    stateManager,   \* StateManager.qualityLevel and the last qualityChanged event
    lastReading,    \* how the last automatic adaptation judged its sample
    spatialGrid,    \* StateManager.spatialGrid: the SpatialGrid object
    screen,         \* the screenX, screenY fields particle objects carry
    queryResult,    \* the last query of the grid: its bounds and its result
    optimizer,      \* StateManager.particleOptimizer
    renderer,       \* per lake, the LakeRenderer its particle system draws with
    subscribers,    \* QualityGovernor.subscribers, in insertion order
    received,       \* per subscriber callback, the last update it was called with
    threw,          \* the callbacks that threw during the last broadcast
    viewportListeners, \* MapIntegrator.viewportListeners, in push order
    dispatch,       \* what the last map event called and what escaped from it
    flowPatterns,   \* the names registerFlowPattern has set in FlowController
    activePatterns, \* FlowController.activePatterns: lake id -> pattern name
    loops,          \* the frame callbacks pending, and what has been torn down
    lodParticle,    \* one particle's size, opacity, lodLevel and display fields
    thresholds,     \* PERFORMANCE_THRESHOLDS.cullingDistance as adaptToPerformance
                    \* leaves it, and the number of its calls
    lodQuery,       \* the last two calls of calculateLODLevel and their results
    flowParticle,   \* one particle under FlowController.applyFreezeBoundary
    fluid,          \* one FluidSimulation: its arrays and the last pass made
    device,         \* what the browser tells detectDeviceTier about the device
    lakeManager,    \* the LakeManager object and StateManager.activeLakeName
    batchProcessor  \* the BatchProcessor object and what its processors saw

sysVars  == <<systems, systemOrder, updateLog>>
qualityVars == <<governor, globals, notified, setCalls, lvs, stateManager,
                 lastReading>>
gridVars == <<spatialGrid, screen, queryResult>>
\* the variables beside the particles, the pool and the quality control
renderVars == <<optimizer, renderer>>
subscriberVars == <<subscribers, received, threw>>
viewportVars == <<viewportListeners, dispatch>>
flowVars == <<flowPatterns, activePatterns>>
loopVars == <<loops>>
\* the variables of the components modelled one at a time
lateVars == <<lakeManager, batchProcessor>>
soloVars == <<lodParticle, thresholds, lodQuery, flowParticle, fluid, device,
              lateVars>>
\* soloVars without the variables of one component
soloNoLod == <<thresholds, lodQuery, flowParticle, fluid,
    device, lateVars>>
soloNoThresholds == <<lodParticle, lodQuery, flowParticle, fluid,
    device, lateVars>>
soloNoLodQuery == <<lodParticle, thresholds, flowParticle, fluid,
    device, lateVars>>
soloNoFlowParticle == <<lodParticle, thresholds, lodQuery, fluid,
    device, lateVars>>
soloNoFluid == <<lodParticle, thresholds, lodQuery, flowParticle, device,
    lateVars>>
soloNoLakeManager == <<lodParticle, thresholds, lodQuery, flowParticle, fluid,
    device, batchProcessor>>
soloNoBatchProcessor == <<lodParticle, thresholds, lodQuery, flowParticle,
    fluid, device, lakeManager>>
extVars  == <<gridVars, renderVars, subscriberVars, viewportVars, flowVars,
              loopVars, soloVars>>
\* extVars without the variables of one subsystem
extNoGrid == <<renderVars, subscriberVars, viewportVars, flowVars, loopVars,
    soloVars>>
extNoRender == <<gridVars, subscriberVars, viewportVars, flowVars, loopVars,
    soloVars>>
extNoSubscribers == <<gridVars, renderVars, viewportVars, flowVars, loopVars,
    soloVars>>
extNoViewport == <<gridVars, renderVars, subscriberVars, flowVars, loopVars,
    soloVars>>
extNoFlow == <<gridVars, renderVars, subscriberVars, viewportVars, loopVars,
    soloVars>>
extNoLoops == <<gridVars, renderVars, subscriberVars, viewportVars, flowVars,
    soloVars>>
vars     == <<particlePool, held, systems, systemOrder, updateLog, particle,
             lastCall, governor, globals, notified, setCalls, lvs,
             stateManager, lastReading, spatialGrid, screen, queryResult,
             optimizer, renderer, subscribers, received, threw,
             viewportListeners, dispatch, flowPatterns, activePatterns,
             loops, lodParticle, thresholds, lodQuery, flowParticle,
             fluid, device, lakeManager, batchProcessor>>

NULL == "null"

\* Names every object literal answers to besides its own keys: a lookup
\* obj[name] with one of them finds the member inherited from
\* Object.prototype, which is truthy
ObjectPrototypeNames == {"constructor", "toString"}

---------------------------------------------------------------------------
(* Bounds of the model *)

LifespanMin == 2        \* shortest lifespan a draw of init can give
LifespanMax == 3        \* longest lifespan a draw of init can give
MaxDelta == 2           \* longest frame time handed to update
PoolSize == 2           \* the size handed to the ParticlePool constructor
MaxAcquires == 5        \* cap of totalCreated + totalReused
SmallParticleCount == 1 \* stand-in for config.particleCount of a small lake
LargeParticleCount == 12 \* stand-in for a particleCount above the batch of 10
MaxAcquiresLarge == 23  \* cap of totalCreated + totalReused beside a large lake
MaxHeld == 3            \* particles a direct caller of the pool holds at once
MaxResize == 3           \* largest size handed to ParticlePool.resize
GridParticleCount == 2   \* particle objects handed to the grid directly
MaxCulled == 2           \* culledParticles above which no further query is made
\* How far throwing calls may move activeCount away from the particles held
MaxThrows == 2

MaxSetCalls == 2         \* setQualityLevel calls on the constructed governor
MaxAdaptCalls == 8       \* adaptToPerformance calls on the optimizer
FluidSize == 4           \* width and height of the grid of the FluidSimulation
MaxFluidForces == 2      \* addVelocity calls on the FluidSimulation
MaxFluidUpdates == 2     \* rounds of update() on the FluidSimulation
MaxBatches == 3           \* addBatch calls made on the BatchProcessor
MaxMomentumLoops == 3     \* applyFrame requests of the EventHandler pending at once

(* Program constants *)

\* transitionSpeed 0.05 and a finished transitionProgress 1.0, in hundredths
TransitionSpeed == 5
ProgressDone == 100

\* PERFORMANCE_THRESHOLDS.maxActiveParticles of config/constants.js
ConfiguredMaxActiveParticles == 2000

\* PERFORMANCE_THRESHOLDS.cullingDistance
CullingDistance == 5000

\* the unit of a lodLevel: 1/1000 of a hundredth
LodScale == 1000

\* PERFORMANCE_THRESHOLDS.targetFPS and lowFPS
TargetFPS == 60
LowFPS == 30

\* The culling distance is carried in ten-thousandths, rounded down
TenThousandths(v) == v * 10000

\* cellSize of new SpatialGrid()
CellSize == 100

PreallocCap == 500      \* ParticlePool constructor: Math.min(size, 500)
ReplenishBatch == 10    \* ParticleSystem.update: Math.min(10, limit - len)

Lifespans == LifespanMin..LifespanMax
Deltas == 1..MaxDelta

Min(a, b) == IF a <= b THEN a ELSE b
Max(a, b) == IF a >= b THEN a ELSE b

---------------------------------------------------------------------------
(* Lake data *)

\* lakes[lakeId].type of the data model
LakeTypeOf(lake) ==
    CASE lake = "wular"   -> "Freshwater Lake"
      [] lake = "pangong" -> "High Altitude Lake"
      [] lake = "pushkar" -> "Sacred Lake"
      [] OTHER            -> "Unknown"

\* getLakeConfigType: the category a type string is normalised to; a string
\* matching no keyword is a Freshwater Lake
GetLakeConfigType(lakeType) ==
    CASE lakeType = "Freshwater Lake"    -> "Freshwater Lake"
      [] lakeType = "High Altitude Lake" -> "High Altitude Lake"
      [] lakeType = "Urban Lake"         -> "Urban Lake"
      [] lakeType = "Sacred Lake"        -> "Sacred Lake"
      [] lakeType = "Salt Lake"          -> "Salt Lake"
      [] lakeType = "Brackish Lake"      -> "Brackish Lake"
      [] OTHER                           -> "Freshwater Lake"

\* LAKE_CONFIG[configType].particleCount, scaled down (1000, 1200, 1500 in
\* the source): the Sacred Lake count stays above the replenish batch
ConfigParticleCount(configType) ==
    CASE configType = "Freshwater Lake"    -> SmallParticleCount
      [] configType = "High Altitude Lake" -> SmallParticleCount + 1
      [] configType = "Sacred Lake"        -> LargeParticleCount
      [] OTHER                             -> SmallParticleCount

---------------------------------------------------------------------------
(* Particle3D *)

\* new Particle3D(): an object no system has seen. The constructor assigns
\* no isExpired field, so reading this.isExpired gives the method isExpired
\* of the prototype ("method", a truthy value) until reset or init assigns
\* the field. lifespan, which init overwrites before anything reads it, is
\* given its reset value; the type flags (crystalline, sparkle,
\* glowIntensity) are undefined on a new object, and so are visible and
\* lodLevel (-1), which only the optimizer assigns.
NewParticle(id) ==
    [id |-> id, age |-> 0, lifespan |-> 0, isExpired |-> "method",
     crystalline |-> FALSE, sparkle |-> FALSE, glowIntensity |-> 0,
     visible |-> "undefined", lodLevel |-> -1]

\* Particle3D.reset (the later definition of the class body, which is the
\* one in force): age, lifespan and isExpired are cleared; the fields set by
\* customizeParticle are not mentioned and keep their values
ParticleReset(p) ==
    [p EXCEPT !.age = 0, !.lifespan = 0, !.isExpired = "false"]

\* Particle3D.init (the later definition): lifespan is the random draw,
\* age 0, isExpired false; the type flags are not mentioned
ParticleInit(p, lifespanDraw) ==
    [p EXCEPT !.age = 0, !.lifespan = lifespanDraw, !.isExpired = "false"]

\* Particle3D.update flagging the particle as soon as age reaches lifespan
ParticleUpdate_AtLifespan(p, deltaTime) ==
    IF p.isExpired # "false"
    THEN [particle |-> p, keep |-> FALSE]
    ELSE LET aged == [p EXCEPT !.age = p.age + deltaTime]
         IN IF aged.age >= aged.lifespan
            THEN [particle |-> [aged EXCEPT !.isExpired = "true"], keep |-> FALSE]
            ELSE [particle |-> aged, keep |-> TRUE]

\* Particle3D.update: [particle, keep], keep being the value returned
ParticleUpdate(p, deltaTime) ==
    IF p.isExpired # "false"
    THEN [particle |-> p, keep |-> FALSE]
    ELSE LET aged == [p EXCEPT !.age = p.age + deltaTime]
         IN IF aged.age > aged.lifespan
            THEN [particle |-> [aged EXCEPT !.isExpired = "true"], keep |-> FALSE]
            ELSE [particle |-> aged, keep |-> TRUE]

\* Particle3D.isExpired(): the method of the class body
IsExpiredMethod(p) == p.age >= p.lifespan

---------------------------------------------------------------------------
(* ParticlePool *)

IdsOf(seq) == {seq[i].id : i \in 1..Len(seq)}

\* identity of a newly constructed object: one no live object has
FreshId(used) == CHOOSE i \in 1..(Cardinality(used) + 1) :
                    i \notin used /\ \A j \in 1..(i - 1) : j \in used

RECURSIVE Prealloc(_, _)
Prealloc(free, n) ==
    IF n = 0 THEN free
    ELSE Prealloc(Append(free, NewParticle(FreshId(IdsOf(free)))), n - 1)

\* new ParticlePool(size)
NewParticlePool(size) ==
    [pool |-> Prealloc(<<>>, Min(size, PreallocCap)), maxSize |-> size,
     activeCount |-> 0, totalCreated |-> 0, totalReused |-> 0]

\* ParticlePool.acquire reading the last free particle without popping it
PoolAcquire_NoPop(pp, liveIds, lifespanDraw) ==
    LET n == Len(pp.pool)
        taken == IF n > 0 THEN pp.pool[n]
                 ELSE NewParticle(FreshId(liveIds \cup IdsOf(pp.pool)))
    IN [pp |-> [pp EXCEPT !.activeCount = pp.activeCount + 1,
                          !.totalCreated = IF n = 0 THEN @ + 1 ELSE @,
                          !.totalReused = IF n = 0 THEN @ ELSE @ + 1],
        particle |-> ParticleInit(taken, lifespanDraw)]

\* ParticlePool.acquire: [pp, particle]. liveIds are the identities of the
\* particles referenced from outside the pool's free list.
PoolAcquire(pp, liveIds, lifespanDraw) ==
    LET n == Len(pp.pool)
        taken == IF n > 0 THEN pp.pool[n]
                 ELSE NewParticle(FreshId(liveIds \cup IdsOf(pp.pool)))
        rest == IF n > 0 THEN SubSeq(pp.pool, 1, n - 1) ELSE pp.pool
    IN [pp |-> [pp EXCEPT !.pool = rest,
                          !.activeCount = pp.activeCount + 1,
                          !.totalCreated = IF Len(rest) = 0 THEN @ + 1 ELSE @,
                          !.totalReused = IF Len(rest) = 0 THEN @ ELSE @ + 1],
        particle |-> ParticleInit(taken, lifespanDraw)]

\* ParticlePool.acquire when particle.init throws: the counters were
\* updated and the particle popped before init was called, and nothing
\* undoes that as the exception leaves acquire
PoolAcquireThrown(pp) ==
    LET n == Len(pp.pool)
        rest == IF n > 0 THEN SubSeq(pp.pool, 1, n - 1) ELSE pp.pool
    IN [pp EXCEPT !.pool = rest,
                  !.activeCount = pp.activeCount + 1,
                  !.totalCreated = IF Len(rest) = 0 THEN @ + 1 ELSE @,
                  !.totalReused = IF Len(rest) = 0 THEN @ ELSE @ + 1]

\* ParticlePool.release when particle.reset throws: activeCount was
\* decremented before reset was called, and the push is never reached
PoolReleaseThrown(pp) ==
    [pp EXCEPT !.activeCount = pp.activeCount - 1]

\* ParticlePool.release pushing without looking at maxSize
PoolRelease_NoCheck(pp, p) ==
    [pp EXCEPT !.activeCount = pp.activeCount - 1,
               !.pool = Append(pp.pool, ParticleReset(p))]

\* ParticlePool.release
PoolRelease(pp, p) ==
    [pp EXCEPT !.activeCount = pp.activeCount - 1,
               !.pool = IF Len(pp.pool) < pp.maxSize
                        THEN Append(pp.pool, ParticleReset(p))
                        ELSE pp.pool]

\* ParticlePool.resize
PoolResize(pp, newSize) ==
    [pp EXCEPT !.maxSize = newSize,
               !.pool = IF Len(pp.pool) > newSize
                        THEN SubSeq(pp.pool, 1, newSize)
                        ELSE pp.pool]

Acquires(pp) == pp.totalCreated + pp.totalReused

\* ParticlePool.getStats; reuseRatio in hundredths
GetStats(pp) ==
    [poolSize |-> Len(pp.pool), maxSize |-> pp.maxSize,
     activeCount |-> pp.activeCount,
     totalCreated |-> pp.totalCreated, totalReused |-> pp.totalReused,
     reuseRatio |-> IF pp.totalCreated > 0
                    THEN (pp.totalReused * 100) \div (pp.totalCreated + pp.totalReused)
                    ELSE 0]

NoCall == [op |-> "none", arg |-> 0, result |-> "none"]

---------------------------------------------------------------------------
(* ParticleSystem *)

\* new ParticleSystem(map, lakeId, lakeData, renderer). The constructor
\* assigns no particleMultiplier, effectComplexity or glowEffects: 0 and
\* FALSE stand for the undefined fields.
NewParticleSystem(lake) ==
    [lakeId |-> lake, lakeType |-> LakeTypeOf(lake), active |-> FALSE,
     particles |-> <<>>,
     particleLimit |-> ConfigParticleCount(GetLakeConfigType(LakeTypeOf(lake))),
     particleMultiplier |-> 0, effectComplexity |-> 0, glowEffects |-> FALSE]

\* ParticleSystem.customizeParticle
CustomizeParticle(p, lakeType) ==
    LET configType == GetLakeConfigType(lakeType)
    IN CASE configType = "Sacred Lake"        -> [p EXCEPT !.glowIntensity = 15]
         [] configType = "High Altitude Lake" -> [p EXCEPT !.sparkle = TRUE]
         [] configType = "Salt Lake"          -> [p EXCEPT !.crystalline = TRUE]
         [] OTHER                             -> p

\* ParticleSystem.generateParticles(count), count = Len(draws): one lifespan
\* draw of init per particle. otherIds: the particles other owners hold.
RECURSIVE GenerateParticles(_, _, _, _, _)
GenerateParticles(particles, pp, lakeType, draws, otherIds) ==
    IF draws = <<>>
    THEN [particles |-> particles, pp |-> pp]
    ELSE LET a == PoolAcquire(pp, otherIds \cup IdsOf(particles), Head(draws))
         IN GenerateParticles(
                Append(particles, CustomizeParticle(a.particle, lakeType)),
                a.pp, lakeType, Tail(draws), otherIds)

\* the filter of ParticleSystem.update: p.update(delta), keep !p.isExpired()
RECURSIVE FilterUpdate(_, _)
FilterUpdate(particles, delta) ==
    IF particles = <<>> THEN <<>>
    ELSE LET u == ParticleUpdate(Head(particles), delta).particle
             rest == FilterUpdate(Tail(particles), delta)
         IN IF IsExpiredMethod(u) THEN rest ELSE <<u>> \o rest

\* ParticleSystem.update refilling to the limit at once
Replenish_NoBatch(sys, kept) ==
    IF kept < sys.particleLimit THEN sys.particleLimit - kept ELSE 0

\* the number of particles ParticleSystem.update generates after its filter
Replenish(sys, kept) ==
    IF kept < sys.particleLimit
    THEN Min(ReplenishBatch, sys.particleLimit - kept)
    ELSE 0

\* what ParticleSystem.update(delta) will ask generateParticles for
UpdateNeeds(sys, delta) ==
    IF sys.active THEN Replenish(sys, Len(FilterUpdate(sys.particles, delta)))
    ELSE 0

\* ParticleSystem.update(delta): [sys, pp, kept, added]
SystemUpdate(sys, pp, delta, draws, otherIds) ==
    IF ~sys.active
    THEN [sys |-> sys, pp |-> pp, kept |-> Len(sys.particles), added |-> 0]
    ELSE LET kept == FilterUpdate(sys.particles, delta)
             g == GenerateParticles(kept, pp, sys.lakeType, draws, otherIds)
         IN [sys |-> [sys EXCEPT !.particles = g.particles], pp |-> g.pp,
             kept |-> Len(kept), added |-> Len(draws)]

\* what ParticleSystem.activate will ask generateParticles for
ActivateNeeds(sys) == IF Len(sys.particles) = 0 THEN sys.particleLimit ELSE 0

\* ParticleSystem.activate on an inactive system: [sys, pp]
SystemActivate(sys, pp, draws, otherIds) ==
    LET g == GenerateParticles(sys.particles, pp, sys.lakeType, draws, otherIds)
    IN [sys |-> [sys EXCEPT !.active = TRUE, !.particles = g.particles],
        pp |-> g.pp]

\* the forEach of ParticleSystem.dispose: pool.release of every particle
RECURSIVE ReleaseAll(_, _)
ReleaseAll(pp, particles) ==
    IF particles = <<>> THEN pp
    ELSE ReleaseAll(PoolRelease(pp, Head(particles)), Tail(particles))

\* the lifespan draws handed to one generateParticles(count): the sequences
\* of count draws that change value at most once
LifespanDraws(count) ==
    {[i \in 1..count |-> IF i <= k THEN a ELSE b] :
        k \in 0..count, a \in Lifespans, b \in Lifespans}

\* the particles the owners other than system `lake` hold
OtherIds(lake) ==
    IdsOf(held) \cup
    UNION {IdsOf(systems[l].particles) : l \in (DOMAIN systems) \ {lake}}

RECURSIVE TotalLimit(_)
TotalLimit(order) ==
    IF order = <<>> THEN 0
    ELSE systems[Head(order)].particleLimit + TotalLimit(Tail(order))

\* the cap of the pool's counters in a run
AcquireCap ==
    IF TotalLimit(systemOrder) > ReplenishBatch THEN MaxAcquiresLarge
    ELSE MaxAcquires

Activate(lake) ==
    /\ ~systems[lake].active
    /\ Acquires(particlePool) + ActivateNeeds(systems[lake]) <= AcquireCap
    /\ \E draws \in LifespanDraws(ActivateNeeds(systems[lake])) :
          LET r == SystemActivate(systems[lake], particlePool, draws, OtherIds(lake))
          IN /\ systems' = [systems EXCEPT ![lake] = r.sys]
             /\ particlePool' = r.pp
    /\ UNCHANGED <<held, systemOrder, updateLog, particle, lastCall,
                 qualityVars, extVars>>

Deactivate(lake) ==
    /\ systems[lake].active
    /\ systems' = [systems EXCEPT ![lake].active = FALSE]
    /\ UNCHANGED <<particlePool, held, systemOrder, updateLog, particle, lastCall,
                 qualityVars, extVars>>

Update(lake, delta) ==
    /\ systems[lake].active
    /\ Acquires(particlePool) + UpdateNeeds(systems[lake], delta) <= AcquireCap
    /\ \E draws \in LifespanDraws(UpdateNeeds(systems[lake], delta)) :
          LET r == SystemUpdate(systems[lake], particlePool, delta, draws,
                                OtherIds(lake))
          IN /\ systems' = [systems EXCEPT ![lake] = r.sys]
             /\ particlePool' = r.pp
             /\ updateLog' = [updateLog EXCEPT
                                 ![lake] = [kept |-> r.kept, added |-> r.added]]
    /\ UNCHANGED <<held, systemOrder, particle, lastCall,
                 qualityVars, extVars>>

\* ParticleSystem.dispose: the particles go back to the pool, the list is
\* emptied and the system is unregistered from its renderer
Dispose(lake) ==
    /\ particlePool' = ReleaseAll(particlePool, systems[lake].particles)
    /\ systems' = [systems EXCEPT ![lake].particles = <<>>]
    /\ renderer' = [renderer EXCEPT ![lake].registered = FALSE]
    /\ UNCHANGED <<held, systemOrder, updateLog, particle, lastCall,
                 qualityVars, optimizer, extNoRender>>

---------------------------------------------------------------------------
(* SpatialGrid *)

\* particle.screenX || 0 and particle.screenY || 0: a particle object that
\* carries no screen coordinates counts as standing at 0
ScreenX(id) == IF id \in DOMAIN screen THEN screen[id].x ELSE 0
ScreenY(id) == IF id \in DOMAIN screen THEN screen[id].y ELSE 0

\* Math.floor(v / cellSize) and Math.ceil(v / cellSize)
FloorCell(v) == v \div CellSize
CeilCell(v) == -((-v) \div CellSize)

\* key(x, y): the string "cellX,cellY", which names the pair of the two
\* cell indices one to one; the pair stands for it
Key_CeilCell(x, y) == <<CeilCell(x), CeilCell(y)>>

Key(x, y) == <<FloorCell(x), FloorCell(y)>>

\* new SpatialGrid(): grid is the Map in insertion order, one entry
\* [key, particles] per cell; particles, activeCells and culledParticles
\* are its metrics
NewSpatialGrid ==
    [grid |-> <<>>, visibleCells |-> {}, particles |-> 0, activeCells |-> 0,
     culledParticles |-> 0]

GridKeys(g) == {g.grid[i].key : i \in 1..Len(g.grid)}

\* The particles the grid holds, over all its cells
RECURSIVE GridParticles(_)
GridParticles(cells) ==
    IF cells = <<>> THEN <<>>
    ELSE Head(cells).particles \o GridParticles(Tail(cells))

\* insert(particle)
GridInsert(g, id) ==
    LET cellKey == Key(ScreenX(id), ScreenY(id))
        cells == IF cellKey \in GridKeys(g) THEN g.grid
                 ELSE Append(g.grid, [key |-> cellKey, particles |-> <<>>])
    IN [g EXCEPT
          !.grid = [i \in 1..Len(cells) |->
                      IF cells[i].key = cellKey
                      THEN [cells[i] EXCEPT !.particles = Append(@, id)]
                      ELSE cells[i]],
          !.particles = @ + 1]

\* clear()
GridClear(g) ==
    [g EXCEPT !.grid = <<>>, !.particles = 0, !.activeCells = 0,
              !.culledParticles = 0]

\* Viewport bounds are <<left, right, top, bottom>>; <<>> is no bounds
Left(bounds) == bounds[1]
Right(bounds) == bounds[2]
Top(bounds) == bounds[3]
Bottom(bounds) == bounds[4]

\* updateVisibleCells(bounds)
UpdateVisibleCells(g, bounds) ==
    IF bounds = <<>> THEN [g EXCEPT !.visibleCells = {}]
    ELSE LET cells == {Key(x * CellSize, y * CellSize) :
                          x \in FloorCell(Left(bounds))..CeilCell(Right(bounds)),
                          y \in FloorCell(Top(bounds))..CeilCell(Bottom(bounds))}
         IN [g EXCEPT !.visibleCells = cells, !.activeCells = Cardinality(cells)]

\* the forEach of query over the Map: the particles of the visible cells in
\* order, and the number of particles in the others
RECURSIVE CollectVisible(_, _)
CollectVisible(cells, visible) ==
    IF cells = <<>> THEN [result |-> <<>>, culled |-> 0]
    ELSE LET rest == CollectVisible(Tail(cells), visible)
             cell == Head(cells)
         IN IF cell.key \in visible
            THEN [result |-> cell.particles \o rest.result, culled |-> rest.culled]
            ELSE [result |-> rest.result,
                  culled |-> Len(cell.particles) + rest.culled]

\* query(bounds): the grid afterwards and the array returned
GridQuery(g, bounds) ==
    IF bounds = <<>> THEN [grid |-> g, result |-> <<>>]
    ELSE LET seen == UpdateVisibleCells(g, bounds)
             c == CollectVisible(seen.grid, seen.visibleCells)
         IN [grid |-> [seen EXCEPT !.culledParticles = @ + c.culled],
             result |-> c.result]

\* system.particles.forEach(particle => spatialGrid.insert(particle))
RECURSIVE InsertAll(_, _)
InsertAll(g, particles) ==
    IF particles = <<>> THEN g
    ELSE InsertAll(GridInsert(g, Head(particles).id), Tail(particles))

\* What the forEach of updateParticleSystems inserts: after each system's
\* update, the particles of that system if it is active. sysMap holds the
\* systems as their updates left them.
RECURSIVE InsertSystems(_, _, _)
InsertSystems(g, order, sysMap) ==
    IF order = <<>> THEN g
    ELSE InsertSystems(IF sysMap[Head(order)].active
                       THEN InsertAll(g, sysMap[Head(order)].particles)
                       ELSE g,
                       Tail(order), sysMap)

---------------------------------------------------------------------------
(* The frame loop *)

\* the forEach of updateParticleSystems over the systems in insertion order:
\* the set of [systems, pp, log] it can end in, one per choice of the draws
RECURSIVE UpdateAll(_, _, _, _, _)
UpdateAll(order, sysMap, pp, log, delta) ==
    IF order = <<>> THEN {[systems |-> sysMap, pp |-> pp, log |-> log]}
    ELSE LET lake == Head(order)
             others == IdsOf(held) \cup
                       UNION {IdsOf(sysMap[l].particles) :
                                 l \in (DOMAIN sysMap) \ {lake}}
         IN UNION {
              LET r == SystemUpdate(sysMap[lake], pp, delta, draws, others)
              IN UpdateAll(Tail(order), [sysMap EXCEPT ![lake] = r.sys], r.pp,
                           IF sysMap[lake].active
                           THEN [log EXCEPT ![lake] =
                                    [kept |-> r.kept, added |-> r.added]]
                           ELSE log,
                           delta) :
              draws \in LifespanDraws(UpdateNeeds(sysMap[lake], delta))}

\* the low-performance branch: particles.slice(0, Math.floor(length * 0.8))
TrimLowPerformance(sysMap) ==
    [l \in DOMAIN sysMap |->
        [sysMap[l] EXCEPT !.particles =
            SubSeq(@, 1, (Len(@) * 8) \div 10)]]

RECURSIVE SumNeeds(_, _)
SumNeeds(order, delta) ==
    IF order = <<>> THEN 0
    ELSE UpdateNeeds(systems[Head(order)], delta) + SumNeeds(Tail(order), delta)

\* updateParticleSystems: one animation frame. delta is what perfMonitor.update()
\* returns, lowPerformance what perfMonitor.isLowPerformance() returns. The
\* grid is cleared first, filled while the systems are updated, and the
\* low-performance slice comes after that. The frame runs when the request
\* kept in animationFrameId is pending, and ends by requesting the next one.
UpdateParticleSystems(delta, lowPerformance) ==
    /\ loops.animationFrameId
    /\ Acquires(particlePool) + SumNeeds(systemOrder, delta) <= AcquireCap
    /\ \E r \in UpdateAll(systemOrder, systems, particlePool, updateLog, delta) :
          /\ systems' = IF lowPerformance
                        THEN TrimLowPerformance(r.systems)
                        ELSE r.systems
          /\ particlePool' = r.pp
          /\ updateLog' = r.log
          /\ spatialGrid' = InsertSystems(GridClear(spatialGrid), systemOrder,
                                          r.systems)
    /\ UNCHANGED <<held, systemOrder, particle, lastCall,
                 qualityVars, screen,
                   queryResult, extNoGrid>>

-----------------------------------------------------------------------------
(* ParticleOptimizer and LakeRenderer *)

\* lodDistanceThresholds of the constructor, details in hundredths
LodDistanceThresholds ==
    <<[distance |-> 1000, detail |-> 100], [distance |-> 2000, detail |-> 75],
      [distance |-> 3000, detail |-> 50],  [distance |-> 4000, detail |-> 25],
      [distance |-> 5000, detail |-> 10]>>

\* A lodLevel is carried in units of 1/LodScale of a hundredth, which keeps
\* the interpolation between two thresholds exact for whole distances; the
\* value of Math.random() is carried in the same unit
LodLevelOf(hundredths) == hundredths * LodScale

\* calculateLODLevel(distance)
RECURSIVE LodFrom(_, _)
LodFrom(i, distance) ==
    IF i > Len(LodDistanceThresholds)
    THEN LodLevelOf(LodDistanceThresholds[Len(LodDistanceThresholds)].detail)
    ELSE LET threshold == LodDistanceThresholds[i]
         IN IF distance <= threshold.distance
            THEN IF i = 1 THEN LodLevelOf(threshold.detail)
                 ELSE LET prevThreshold == LodDistanceThresholds[i - 1]
                      IN LodLevelOf(prevThreshold.detail)
                         + ((distance - prevThreshold.distance)
                            * (threshold.detail - prevThreshold.detail) * LodScale)
                           \div (threshold.distance - prevThreshold.distance)
            ELSE LodFrom(i + 1, distance)

\* calculateLODLevel(distance) without the case of the first threshold
CalculateLODLevel_Interpolated(distance) == LodFrom(2, distance)

CalculateLODLevel(distance) == LodFrom(1, distance)

\* The counter of metrics.lodParticles that updateLODMetrics increments
LodTier(lodLevel) ==
    IF lodLevel > LodLevelOf(90) THEN "full"
    ELSE IF lodLevel > LodLevelOf(60) THEN "high"
    ELSE IF lodLevel > LodLevelOf(40) THEN "medium"
    ELSE IF lodLevel > LodLevelOf(20) THEN "low"
    ELSE "minimal"

\* new ParticleOptimizer(): the two switches and the metrics
NewParticleOptimizer ==
    [frustumCulling |-> TRUE, dynamicLOD |-> TRUE, culledParticles |-> 0,
     lodParticles |-> [full |-> 0, high |-> 0, medium |-> 0, low |-> 0,
                       minimal |-> 0]]

\* resetMetrics()
ResetMetrics(opt) ==
    [opt EXCEPT !.culledParticles = 0,
                !.lodParticles = [full |-> 0, high |-> 0, medium |-> 0,
                                  low |-> 0, minimal |-> 0]]

\* shouldRender(particle, cameraPosition) for a particle at the given
\* distance from the camera and the given value of Math.random(): the
\* optimizer afterwards, the flag and the level returned
ShouldRender(opt, distance, random) ==
    IF ~opt.frustumCulling /\ ~opt.dynamicLOD
    THEN [opt |-> opt, shouldRender |-> TRUE, lodLevel |-> LodLevelOf(100)]
    ELSE IF opt.frustumCulling
            /\ distance * distance > CullingDistance * CullingDistance
    THEN [opt |-> [opt EXCEPT !.culledParticles = @ + 1],
          shouldRender |-> FALSE, lodLevel |-> 0]
    ELSE IF opt.dynamicLOD
    THEN LET lodLevel == CalculateLODLevel(distance)
             counted == [opt EXCEPT !.lodParticles[LodTier(lodLevel)] = @ + 1]
         IN [opt |-> counted,
             shouldRender |-> ~(lodLevel < LodLevelOf(99) /\ random > lodLevel),
             lodLevel |-> lodLevel]
    ELSE [opt |-> opt, shouldRender |-> TRUE, lodLevel |-> LodLevelOf(100)]

\* particle.setLODLevel(level)
SetLODLevel(p, level) == [p EXCEPT !.lodLevel = level]

\* The forEach of optimizeParticleSystem: samples[i] is the distance of the
\* i-th particle and the random number drawn for it
RECURSIVE OptimizeParticles(_, _, _)
OptimizeParticles(opt, particles, samples) ==
    IF particles = <<>> THEN [opt |-> opt, particles |-> <<>>]
    ELSE LET r == ShouldRender(opt, Head(samples).distance, Head(samples).random)
             flagged == [Head(particles) EXCEPT
                            !.visible = IF r.shouldRender THEN "true" ELSE "false"]
             p == IF r.shouldRender THEN SetLODLevel(flagged, r.lodLevel)
                  ELSE flagged
             rest == OptimizeParticles(r.opt, Tail(particles), Tail(samples))
         IN [opt |-> rest.opt, particles |-> <<p>> \o rest.particles]

\* Distances inside the first threshold, between thresholds, at the culling
\* distance and beyond it; random numbers at both ends of [0, 1)
OptimizerSamples ==
    [distance : {500, 1500, CullingDistance, CullingDistance + 1},
     random : {0, LodLevelOf(100) - 1}]

\* optimizeParticleSystem(system, cameraPosition) on one active system, the
\* call the viewport listener of initParticleOptimizer makes
OptimizeParticleSystem(lake) ==
    /\ systems[lake].active
    /\ \E samples \in [1..Len(systems[lake].particles) -> OptimizerSamples] :
          LET o == OptimizeParticles(ResetMetrics(optimizer),
                                     systems[lake].particles, samples)
          IN /\ optimizer' = o.opt
             /\ systems' = [systems EXCEPT ![lake].particles = o.particles]
    /\ lastCall' = [op |-> "optimize", arg |-> 0, result |-> lake]
    /\ UNCHANGED <<particlePool, held, systemOrder, updateLog, particle,
                   qualityVars, renderer, extNoRender>>

\* The renderer a ParticleSystem is built with, once the constructor has
\* registered the system with it: nothing written, nothing drawn
NewLakeRenderer == [registered |-> TRUE, written |-> <<>>, drawRange |-> 0]

\* updateParticleBuffers() of the renderer the system registered with:
\* written[i] is the particle whose position, size, colour and opacity are
\* at index i - 1 of the attribute buffers
UpdateParticleBuffers(r, sys) ==
    LET totalParticles == IF sys.active THEN Len(sys.particles) ELSE 0
    IN IF totalParticles = 0 THEN r
       ELSE [r EXCEPT
               !.written = [i \in 1..Len(sys.particles) |-> sys.particles[i].id],
               !.drawRange = totalParticles]

\* render() of a system's renderer: nothing happens once the system has
\* unregistered itself (systems.size === 0)
Render(lake) ==
    /\ renderer' = [renderer EXCEPT ![lake] =
                       IF @.registered THEN UpdateParticleBuffers(@, systems[lake])
                       ELSE @]
    /\ lastCall' = [op |-> "render", arg |-> 0, result |-> lake]
    /\ UNCHANGED <<particlePool, held, sysVars, particle, qualityVars,
                   optimizer, extNoRender>>

-----------------------------------------------------------------------------
(* Particle3D: level of detail *)

\* size and opacity are in hundredths and so is a level; the display fields
\* are products of the two and are carried in ten-thousandths, which
\* Hundredths converts a size or opacity to. -1 stands for undefined.
\* previous is the level before the last setLODLevel call.
Hundredths(v) == v * 100

NewLodParticle(size, opacity) ==
    [size |-> size, opacity |-> opacity, lodLevel |-> -1,
     displaySize |-> -1, displayOpacity |-> -1, previous |-> -1]

\* updateLODAppearance leaving displayOpacity alone from half detail up
UpdateLODAppearance_LowOnly(p) ==
    IF p.lodLevel = -1 THEN p
    ELSE [p EXCEPT !.displaySize = p.size * p.lodLevel,
                   !.displayOpacity = IF p.lodLevel < 50
                                      THEN p.opacity * (50 + p.lodLevel)
                                      ELSE @]

\* updateLODAppearance()
UpdateLODAppearance(p) ==
    IF p.lodLevel = -1 THEN p
    ELSE [p EXCEPT !.displaySize = p.size * p.lodLevel,
                   !.displayOpacity = IF p.lodLevel < 50
                                      THEN p.opacity * (50 + p.lodLevel)
                                      ELSE Hundredths(p.opacity)]

\* setLODLevel(level) with the display fields it updates
SetLODLevelAppearance(p, level) ==
    IF p.lodLevel = level THEN [p EXCEPT !.previous = p.lodLevel]
    ELSE UpdateLODAppearance([p EXCEPT !.lodLevel = level,
                                       !.previous = p.lodLevel])

-----------------------------------------------------------------------------
(* FluidSimulation *)

\* Values of the arrays are whole numbers of half a quantum of 0.01; a store
\* into an interior cell rounds to whole quanta, as the Float32Array rounds
\* to its precision, which keeps the average setBoundary stores in a corner
\* exact
Quantize(v) == 2 * (v \div 2)

\* options.iterations, viscosity 0.3 and diffusion 0.5 in hundredths, and
\* the dt of update() in hundredths of a millisecond
FluidIterations == 4
Viscosity == 30
Diffusion == 50
FluidDt == 1667

FluidCells == (0..FluidSize - 1) \X (0..FluidSize - 1)

\* the interior cells in the order of the loops: for j, for i
RECURSIVE InteriorFrom(_, _)
InteriorFrom(i, j) ==
    IF j > FluidSize - 2 THEN <<>>
    ELSE IF i > FluidSize - 2 THEN InteriorFrom(1, j + 1)
    ELSE <<(<<i, j>>)>> \o InteriorFrom(i + 1, j)

Interior == InteriorFrom(1, 1)

\* new Float32Array(width * height)
ZeroField == [c \in FluidCells |-> 0]

\* IX(x, y): the coordinates clamped to the grid
IX(x, y) == <<Max(0, Min(FluidSize - 1, x)), Max(0, Min(FluidSize - 1, y))>>

\* The value of a construction with one value. A stage of a computation is
\* written as the element of a one-element set, Only({F(v) : v \in {e}}),
\* which computes e once however often F uses v.
Only(S) == CHOOSE v \in S : TRUE

\* setBoundary(b, x) with every cell of the edges a copy of the interior
\* cell nearest to it
SetBoundary_Open(b, x) ==
    [c \in FluidCells |-> x[<<Max(1, Min(FluidSize - 2, c[1])),
                              Max(1, Min(FluidSize - 2, c[2]))>>]]

\* setBoundary(b, x): the loop over the top and bottom rows, the loop over
\* the left and right columns, then the four corners one after the other
SetBoundary(b, x) ==
    LET n == FluidSize - 1
        Rows(y) ==
            [c \in FluidCells |->
                IF c[1] \in 1..n - 1 /\ c[2] = 0
                THEN IF b = 2 THEN -y[IX(c[1], 1)] ELSE y[IX(c[1], 1)]
                ELSE IF c[1] \in 1..n - 1 /\ c[2] = n
                THEN IF b = 2 THEN -y[IX(c[1], n - 1)] ELSE y[IX(c[1], n - 1)]
                ELSE y[c]]
        Columns(y) ==
            [c \in FluidCells |->
                IF c[2] \in 1..n - 1 /\ c[1] = 0
                THEN IF b = 1 THEN -y[IX(1, c[2])] ELSE y[IX(1, c[2])]
                ELSE IF c[2] \in 1..n - 1 /\ c[1] = n
                THEN IF b = 1 THEN -y[IX(n - 1, c[2])] ELSE y[IX(n - 1, c[2])]
                ELSE y[c]]
        \* y[IX(i, j)] = 0.5 * (y[IX(i1, j1)] + y[IX(i2, j2)])
        Corner(y, i, j, i1, j1, i2, j2) ==
            [y EXCEPT ![IX(i, j)] = (y[IX(i1, j1)] + y[IX(i2, j2)]) \div 2]
    IN Only({Corner(c3, n, n, n - 1, n, n, n - 1) :
          c3 \in {Corner(c2, n, 0, n - 1, 0, n, 1) :
             c2 \in {Corner(c1, 0, n, 1, n, 0, n - 1) :
                c1 \in {Corner(cols, 0, 0, 1, 0, 0, 1) :
                   cols \in {Columns(rows) :
                      rows \in {Rows(y) : y \in {x}}}}}}})

\* one sweep of linearSolve over the interior cells, each store seen by the
\* cells after it; a and c in hundredths
RECURSIVE Sweep(_, _, _, _, _)
Sweep(cells, x, x0, a, c) ==
    LET Stored(y, i, j) ==
            [y EXCEPT ![IX(i, j)] =
                Quantize((100 * x0[IX(i, j)]
                          + a * (y[IX(i + 1, j)] + y[IX(i - 1, j)]
                                 + y[IX(i, j + 1)] + y[IX(i, j - 1)])) \div c)]
    IN IF cells = <<>> THEN x
       ELSE Only({Sweep(Tail(cells), stored, x0, a, c) :
                     stored \in {Stored(y, Head(cells)[1], Head(cells)[2]) :
                                    y \in {x}}})

\* linearSolve(b, x, x0, a, c): this.iterations sweeps, setBoundary after each
RECURSIVE LinearSolveFrom(_, _, _, _, _, _)
LinearSolveFrom(k, b, x, x0, a, c) ==
    IF k >= FluidIterations THEN x
    ELSE Only({LinearSolveFrom(k + 1, b, bounded, x0, a, c) :
                  bounded \in {SetBoundary(b, swept) :
                     swept \in {Sweep(Interior, y, x0, a, c) : y \in {x}}}})

LinearSolve(b, x, x0, a, c) == LinearSolveFrom(0, b, x, x0, a, c)

\* diffuse(b, x, x0, diffusion, dt): the array x afterwards
Diffuse(b, x, x0, diffusion) ==
    LET a == (FluidDt * diffusion * (FluidSize - 2) * (FluidSize - 2)) \div 10000
    IN LinearSolve(b, x, x0, 100 * a, 100 + 600 * a)

InsideGrid(c) == c[1] \in 1..FluidSize - 2 /\ c[2] \in 1..FluidSize - 2

\* advect(b, d, d0, velocX, velocY, dt): the array d afterwards; positions
\* in hundredths of a cell
Advect(b, d, d0, velocX, velocY) ==
    LET dtx == (FluidDt * (FluidSize - 2)) \div 2
        \* the backward trace, kept within the grid
        TracedBack(at, v) ==
            Max(50, Min(100 * FluidSize - 150, 100 * at - (dtx * v) \div 100))
        \* the bilinear interpolation at the point (x, y)
        Interpolated(x, y) ==
            LET i0 == x \div 100
                j0 == y \div 100
                s1 == x - 100 * i0
                t1 == y - 100 * j0
            IN Quantize(((100 - s1) * ((100 - t1) * d0[IX(i0, j0)]
                                       + t1 * d0[IX(i0, j0 + 1)])
                         + s1 * ((100 - t1) * d0[IX(i0 + 1, j0)]
                                 + t1 * d0[IX(i0 + 1, j0 + 1)]))
                        \div 10000)
    IN SetBoundary(b, [c \in FluidCells |->
                          IF InsideGrid(c)
                          THEN Interpolated(TracedBack(c[1], velocX[c]),
                                            TracedBack(c[2], velocY[c]))
                          ELSE d[c]])

\* project(velocX, velocY, p, div): the four arrays afterwards
Project(velocX, velocY, p, div) ==
    LET Divergence ==
            [c \in FluidCells |->
                IF InsideGrid(c)
                THEN Quantize((-(velocX[IX(c[1] + 1, c[2])]
                                 - velocX[IX(c[1] - 1, c[2])]
                                 + velocY[IX(c[1], c[2] + 1)]
                                 - velocY[IX(c[1], c[2] - 1)]))
                              \div (2 * FluidSize))
                ELSE div[c]]
        \* the velocities less the gradient of the pressure q
        Less(q) ==
            [velocX |-> SetBoundary(1, [c \in FluidCells |->
                 IF InsideGrid(c)
                 THEN Quantize(velocX[c]
                               - ((q[IX(c[1] + 1, c[2])] - q[IX(c[1] - 1, c[2])])
                                  * FluidSize) \div 2)
                 ELSE velocX[c]]),
             velocY |-> SetBoundary(2, [c \in FluidCells |->
                 IF InsideGrid(c)
                 THEN Quantize(velocY[c]
                               - ((q[IX(c[1], c[2] + 1)] - q[IX(c[1], c[2] - 1)])
                                  * FluidSize) \div 2)
                 ELSE velocY[c]])]
    IN Only({[velocX |-> Less(solved.p).velocX, velocY |-> Less(solved.p).velocY,
              p |-> solved.p, div |-> solved.div] :
                solved \in {[p |-> LinearSolve(0, p2, div2, 100, 600),
                             div |-> div2] :
                   p2 \in {SetBoundary(0, [c \in FluidCells |->
                                              IF InsideGrid(c) THEN 0 ELSE p[c]])},
                   div2 \in {SetBoundary(0, Divergence)}}})

\* new FluidSimulation(options): the arrays, the passes of the running
\* update made so far, and the arrays the last pass wrote with their b
NewFluidSimulation ==
    [velocityX |-> ZeroField, velocityY |-> ZeroField,
     prevVelocityX |-> ZeroField, prevVelocityY |-> ZeroField,
     density |-> ZeroField, prevDensity |-> ZeroField,
     pass |-> 0, updates |-> 0, forces |-> 0, output |-> <<>>]

-----------------------------------------------------------------------------
(* Frame callbacks and teardown *)

\* momentum.factor and momentum.min, in hundredths
MomentumFactor == 95
MomentumMin == 5

\* The momentum a drag may leave when the mouse button is released, in
\* hundredths; one axis stands for both
StartMomenta == {8, 12}

\* animationFrameId: whether the request of the main loop is pending.
\* momentumLoops: the number of requests of applyFrame that are pending
\* (their handles are not stored anywhere); mouseDown is mouse.down. The
\* request of transitionLoop is made at the
\* top of every frame and never stored or cancelled, so it is always
\* pending and has no field here.
NewLoops == [animationFrameId |-> TRUE, cleaned |-> FALSE,
             momentum |-> 0, momentumLoops |-> 0, mouseDown |-> FALSE,
             handlerActive |-> TRUE, handlerDisposed |-> FALSE]

\* handleMouseUp with a momentum above the threshold, while no applyFrame
\* is pending: applyMomentum requests the first applyFrame
StartMomentum(m) ==
    /\ loops.handlerActive /\ ~loops.handlerDisposed
    /\ loops.momentumLoops = 0
    /\ loops' = [loops EXCEPT !.momentum = m, !.momentumLoops = 1]
    /\ lastCall' = [op |-> "applyMomentum", arg |-> m, result |-> "ok"]
    /\ UNCHANGED <<particlePool, held, sysVars, particle, qualityVars,
                   extNoLoops>>

\* momentum * factor
Decay(m) == (m * MomentumFactor) \div 100

\* applyFrame: the momentum decays (the velocities it adds to are not part
\* of the particle records) and the next frame is requested while the
\* momentum is above momentum.min
MomentumFrame ==
    /\ loops.momentumLoops > 0
    /\ loops' = [loops EXCEPT
                   !.momentum = Decay(loops.momentum),
                   !.momentumLoops = IF Decay(loops.momentum) > MomentumMin
                                     THEN @ ELSE @ - 1]
    /\ lastCall' = [op |-> "applyFrame", arg |-> Decay(loops.momentum),
                    result |-> "ok"]
    /\ UNCHANGED <<particlePool, held, sysVars, particle, qualityVars,
                   extNoLoops>>

\* INTERACTION_CONFIG.minVelocity, in hundredths
MinVelocity == 1

\* The momentum handleMouseMove computes from a drag, in hundredths: a move
\* that covers no distance, and two drags
DragMomenta == {0, 8, 12}

loopsRest == <<particlePool, held, sysVars, particle, qualityVars, extNoLoops>>

\* handleMouseDown(e)
HandleMouseDown ==
    /\ loops' = IF ~loops.handlerActive THEN loops
                ELSE [loops EXCEPT !.mouseDown = TRUE, !.momentum = 0]
    /\ lastCall' = [op |-> "handleMouseDown", arg |-> 0, result |-> "ok"]
    /\ UNCHANGED loopsRest

\* handleMouseMove(e) leaving the momentum m when the button is down
HandleMouseMove(m) ==
    /\ loops' = IF loops.handlerActive /\ loops.mouseDown
                THEN [loops EXCEPT !.momentum = m]
                ELSE loops
    /\ lastCall' = [op |-> "handleMouseMove", arg |-> m, result |-> "ok"]
    /\ UNCHANGED loopsRest

\* handleMouseUp(), applyMomentum included
HandleMouseUp ==
    /\ loops.momentumLoops < MaxMomentumLoops
    /\ loops' = IF ~loops.handlerActive \/ ~loops.mouseDown THEN loops
                ELSE [loops EXCEPT
                        !.mouseDown = FALSE,
                        !.momentumLoops = IF loops.momentum > MinVelocity
                                          THEN @ + 1 ELSE @]
    /\ lastCall' = [op |-> "handleMouseUp", arg |-> loops.momentum,
                    result |-> "ok"]
    /\ UNCHANGED loopsRest

\* EventHandler.dispose: listeners are removed and the map reference is
\* dropped (handlerDisposed stands for map = null); no frame request is
\* cancelled. Its first statement is this.map.getContainer(), a TypeError
\* once map is null, which ends the call before anything else is done.
DisposeHandler ==
    /\ loops' = [loops EXCEPT !.handlerDisposed = TRUE]
    /\ lastCall' = [op |-> "EventHandler.dispose", arg |-> 0,
                    result |-> IF loops.handlerDisposed THEN "TypeError"
                               ELSE "ok"]
    /\ UNCHANGED <<particlePool, held, sysVars, particle, qualityVars,
                   extNoLoops>>

\* system.dispose() of every particle system, as cleanup's forEach runs it
RECURSIVE DisposeAll(_, _, _)
DisposeAll(order, syss, pp) ==
    IF order = <<>> THEN pp
    ELSE DisposeAll(Tail(order), syss, ReleaseAll(pp, syss[Head(order)].particles))

\* The beforeunload handler: cancelAnimationFrame(animationFrameId), then
\* StateManager.cleanup(), which disposes and forgets the particle systems
\* and disposes the managers. mapIntegrator.dispose() calls clear() on the
\* listener array, a TypeError that ends cleanup there; the listeners stay.
\* Nothing in it reaches the quality governor or the event handler.
Cleanup ==
    /\ ~loops.cleaned
    /\ loops' = [loops EXCEPT !.animationFrameId = FALSE, !.cleaned = TRUE]
    /\ particlePool' = DisposeAll(systemOrder, systems, particlePool)
    /\ systems' = <<>>
    /\ systemOrder' = <<>>
    /\ renderer' = [l \in DOMAIN renderer |->
                      [renderer[l] EXCEPT !.registered = FALSE]]
    /\ lastCall' = [op |-> "cleanup", arg |-> 0, result |-> "TypeError"]
    /\ UNCHANGED <<held, updateLog, particle, qualityVars, optimizer, gridVars,
                   subscriberVars, viewportVars, flowVars, soloVars>>

-----------------------------------------------------------------------------
(* FlowController: flow patterns *)

\* Two of the patterns LakeTypeEffectController.initialize registers
RegisteredPatternNames == {"gentle", "icy"}

\* Names a caller may pass: the registered ones, one nobody registers, and
\* the names of Object.prototype
CalledPatternNames ==
    RegisteredPatternNames \cup {"whirlpool"} \cup ObjectPrototypeNames

FlowLakes == {"wular", "pangong"}

\* this.flowPatterns[name], as setActivePattern tests it: the pattern
\* functions are truthy, and so are the inherited members of the object
HasFlowPattern(patterns, name) ==
    name \in patterns \cup ObjectPrototypeNames

\* registerFlowPattern(name, patternFunction)
RegisterFlowPattern(name) ==
    /\ flowPatterns' = flowPatterns \cup {name}
    /\ lastCall' = [op |-> "registerFlowPattern", arg |-> 0, result |-> "true"]
    /\ UNCHANGED <<particlePool, held, sysVars, particle, qualityVars,
                   activePatterns, extNoFlow>>

\* setActivePattern(lakeId, patternName)
SetActivePattern(lakeId, patternName) ==
    /\ IF ~HasFlowPattern(flowPatterns, patternName)
       THEN /\ activePatterns' = activePatterns
            /\ lastCall' = [op |-> "setActivePattern", arg |-> 0,
                            result |-> "false"]
       ELSE /\ activePatterns' =
                   [l \in DOMAIN activePatterns \cup {lakeId} |->
                       IF l = lakeId THEN patternName ELSE activePatterns[l]]
            /\ lastCall' = [op |-> "setActivePattern", arg |-> 0,
                            result |-> "true"]
    /\ UNCHANGED <<particlePool, held, sysVars, particle, qualityVars,
                   flowPatterns, extNoFlow>>

-----------------------------------------------------------------------------
(* MapIntegrator: viewport listeners *)

\* How many listeners the integrator is given
MaxViewportListeners == 3

\* What the program passes to registerViewportListener: the visualization
\* system and the object wrapping the high altitude controller, which have
\* an updateVisualizations method, and the arrow function of
\* initParticleOptimizer, which has none
ListenerObjects == {"visualizationSystem", "highAltitudeController"}
ListenerFunctions == {"optimizerCallback"}

HasUpdateVisualizations(listener) == listener \in ListenerObjects

NoDispatch == [event |-> "none", called |-> {}, typeErrors |-> 0,
               escaped |-> FALSE]

\* notifyViewportListeners(prevState, currentState): each listener is
\* called as a function inside try/catch. Calling an object that is not a
\* function is a TypeError, which the catch logs; returns how many were
\* caught.
NotifyViewportListeners(listeners) ==
    Cardinality({i \in 1..Len(listeners) : listeners[i] \in ListenerObjects})

\* _notifyViewportListeners(): forEach calls updateVisualizations of each
\* listener with no try/catch, so the first that throws ends the forEach
\* and the exception leaves the handler. Returns the listeners called and
\* whether an exception escaped.
RECURSIVE NotifyByMethod(_, _, _)
NotifyByMethod(listeners, throwers, called) ==
    IF listeners = <<>> THEN [called |-> called, escaped |-> FALSE]
    ELSE IF ~HasUpdateVisualizations(Head(listeners))
    THEN NotifyByMethod(Tail(listeners), throwers, called)
    ELSE IF Head(listeners) \in throwers
    THEN [called |-> called \cup {Head(listeners)}, escaped |-> TRUE]
    ELSE NotifyByMethod(Tail(listeners), throwers,
                        called \cup {Head(listeners)})

\* registerViewportListener(listener): pushed only when it has an
\* updateVisualizations method
RegisterViewportListener(listener) ==
    /\ Len(viewportListeners) < MaxViewportListeners
    /\ viewportListeners' = IF HasUpdateVisualizations(listener)
                            THEN Append(viewportListeners, listener)
                            ELSE viewportListeners
    /\ lastCall' = [op |-> "registerViewportListener", arg |-> 0,
                    result |-> IF HasUpdateVisualizations(listener)
                               THEN "true" ELSE "false"]
    /\ UNCHANGED <<particlePool, held, sysVars, particle, qualityVars,
                   dispatch, extNoViewport>>

\* The map fires 'move': the handlers of setupViewportSync run in the order
\* they were bound, updateViewportState (which notifies when the viewport
\* changed) and then _notifyViewportListeners
MapMove(changed, throwers) ==
    LET n == NotifyByMethod(viewportListeners, throwers, {})
    IN /\ dispatch' = [event |-> "move", called |-> n.called,
                       typeErrors |-> IF changed
                                      THEN NotifyViewportListeners(viewportListeners)
                                      ELSE 0,
                       escaped |-> n.escaped]
       /\ lastCall' = [op |-> "move", arg |-> 0,
                       result |-> IF changed THEN "true" ELSE "false"]
       /\ UNCHANGED <<particlePool, held, sysVars, particle, qualityVars,
                      viewportListeners, extNoViewport>>

\* The map fires 'zoom': _notifyViewportListeners
MapZoom(throwers) ==
    LET n == NotifyByMethod(viewportListeners, throwers, {})
    IN /\ dispatch' = [event |-> "zoom", called |-> n.called,
                       typeErrors |-> 0, escaped |-> n.escaped]
       /\ lastCall' = [op |-> "zoom", arg |-> 0, result |-> "true"]
       /\ UNCHANGED <<particlePool, held, sysVars, particle, qualityVars,
                      viewportListeners, extNoViewport>>

-----------------------------------------------------------------------------
(* Quality presets *)

\* qualityLevels, best first
QualityLevels == <<"ultra", "high", "medium", "low", "minimal">>

LevelSet == {QualityLevels[i] : i \in 1..Len(QualityLevels)}

\* qualityLevels.indexOf(level), counted from 1
IndexOf(level) == CHOOSE i \in 1..Len(QualityLevels) : QualityLevels[i] = level

\* QUALITY_PRESETS; the fractional settings are in hundredths
QUALITY_PRESETS ==
    [minimal |-> [particleMultiplier |-> 20, maxParticles |-> 500,
                  renderScale |-> 50, effectComplexity |-> 0,
                  animationComplexity |-> 0, glowEffects |-> FALSE,
                  postProcessing |-> FALSE, physicsIterations |-> 1,
                  renderDistance |-> 40],
     low     |-> [particleMultiplier |-> 40, maxParticles |-> 1000,
                  renderScale |-> 60, effectComplexity |-> 30,
                  animationComplexity |-> 30, glowEffects |-> TRUE,
                  postProcessing |-> FALSE, physicsIterations |-> 2,
                  renderDistance |-> 60],
     medium  |-> [particleMultiplier |-> 70, maxParticles |-> 2000,
                  renderScale |-> 80, effectComplexity |-> 60,
                  animationComplexity |-> 60, glowEffects |-> TRUE,
                  postProcessing |-> TRUE, physicsIterations |-> 3,
                  renderDistance |-> 80],
     high    |-> [particleMultiplier |-> 100, maxParticles |-> 4000,
                  renderScale |-> 100, effectComplexity |-> 80,
                  animationComplexity |-> 80, glowEffects |-> TRUE,
                  postProcessing |-> TRUE, physicsIterations |-> 4,
                  renderDistance |-> 100],
     ultra   |-> [particleMultiplier |-> 150, maxParticles |-> 8000,
                  renderScale |-> 120, effectComplexity |-> 100,
                  animationComplexity |-> 100, glowEffects |-> TRUE,
                  postProcessing |-> TRUE, physicsIterations |-> 5,
                  renderDistance |-> 120]]

SettingKeys == DOMAIN QUALITY_PRESETS["high"]

\* typeof preset[key] === 'number'
NumericKeys == SettingKeys \ {"glowEffects", "postProcessing"}

\* A settings object handed to applySettings or to the subscribers carries
\* its numbers multiplied by ProgressDone, so that an interpolation at a
\* progress in hundredths is exact. PresetSettings is a preset in that form.
PresetSettings(level) ==
    [k \in SettingKeys |->
        IF k \in NumericKeys THEN QUALITY_PRESETS[level][k] * ProgressDone
        ELSE QUALITY_PRESETS[level][k]]

\* Math.floor of a number carried in hundredths
Floor(x) == x \div ProgressDone

-----------------------------------------------------------------------------
(* QualityGovernor *)

\* The fields the constructor assigns before it selects the device tier
NewGovernor ==
    [currentLevel |-> "high", targetLevel |-> NULL,
     transitionProgress |-> ProgressDone]

\* setQualityLevel(level): the governor afterwards and the value returned
GovSetQualityLevel(g, level) ==
    IF level \notin DOMAIN QUALITY_PRESETS \cup ObjectPrototypeNames
    THEN [governor |-> g, result |-> FALSE]
    ELSE IF level = g.currentLevel
    THEN [governor |-> g, result |-> TRUE]
    ELSE [governor |-> [g EXCEPT !.targetLevel = level,
                                 !.transitionProgress = 0],
          result |-> TRUE]

\* increaseQuality()
GovIncreaseQuality(g) ==
    IF IndexOf(g.currentLevel) > 1
    THEN GovSetQualityLevel(g, QualityLevels[IndexOf(g.currentLevel) - 1])
    ELSE [governor |-> g, result |-> FALSE]

\* decreaseQuality()
GovDecreaseQuality(g) ==
    IF IndexOf(g.currentLevel) < Len(QualityLevels)
    THEN GovSetQualityLevel(g, QualityLevels[IndexOf(g.currentLevel) + 1])
    ELSE [governor |-> g, result |-> FALSE]

\* The interpolatedSettings object updateIntermediateSettings builds
InterpolatedSettings(g) ==
    LET currentSettings == QUALITY_PRESETS[g.currentLevel]
        targetSettings  == QUALITY_PRESETS[g.targetLevel]
    IN [k \in SettingKeys |->
          IF k \in NumericKeys
          THEN currentSettings[k] * ProgressDone
               + (targetSettings[k] - currentSettings[k]) * g.transitionProgress
          ELSE IF g.transitionProgress * 2 > ProgressDone
               THEN targetSettings[k] ELSE currentSettings[k]]

\* The body of one transitionLoop frame as far as the governor's own fields
\* go, and what it broadcasts: "complete" with the preset of the new
\* currentLevel, "intermediate" with the interpolated settings (through
\* applySettings), or nothing ("idle").
GovTick_NeverCompletes(g) ==
    IF g.targetLevel # NULL /\ g.transitionProgress < ProgressDone
    THEN LET moved == [g EXCEPT !.transitionProgress =
                          Min(@ + TransitionSpeed, ProgressDone - TransitionSpeed)]
         IN [governor |-> moved, kind |-> "intermediate",
             settings |-> InterpolatedSettings(moved)]
    ELSE [governor |-> g, kind |-> "idle",
          settings |-> PresetSettings(g.currentLevel)]

GovTick(g) ==
    IF g.targetLevel # NULL /\ g.transitionProgress < ProgressDone
    THEN LET moved == [g EXCEPT !.transitionProgress = @ + TransitionSpeed]
         IN IF moved.transitionProgress >= ProgressDone
            THEN [governor |-> [currentLevel |-> g.targetLevel,
                                targetLevel |-> NULL,
                                transitionProgress |-> ProgressDone],
                  kind |-> "complete",
                  settings |-> PresetSettings(g.targetLevel)]
            ELSE [governor |-> moved, kind |-> "intermediate",
                  settings |-> InterpolatedSettings(moved)]
    ELSE [governor |-> g, kind |-> "idle",
          settings |-> PresetSettings(g.currentLevel)]

\* applySettings(settings) on PERFORMANCE_THRESHOLDS and window
ApplyToGlobals(settings) ==
    [maxActiveParticles |-> Floor(settings.maxParticles),
     renderScale |-> settings.renderScale]

\* applySettings(settings) on the registered particle systems. No
\* ParticleSystem has a setEffectComplexity method, so the typeof test
\* fails and only particleMultiplier is assigned.
ApplyToSystems(sysMap, settings) ==
    [l \in DOMAIN sysMap |->
        [sysMap[l] EXCEPT !.particleMultiplier = settings.particleMultiplier]]

\* What a frame of the loop leaves in the consumers
TickGlobals(t, g) == IF t.kind = "intermediate" THEN ApplyToGlobals(t.settings) ELSE g

TickSystems(t, sysMap) ==
    IF t.kind = "intermediate" THEN ApplyToSystems(sysMap, t.settings) ELSE sysMap

\* notifySubscribers(type, settings)
Notification(t) == [type |-> t.kind, level |-> t.governor.currentLevel,
                    settings |-> t.settings]

NoNotification == [type |-> "none", level |-> "high",
                   settings |-> PresetSettings("high")]

TickNotified(t, n) == IF t.kind = "idle" THEN n ELSE Notification(t)

\* The callbacks that can be subscribed: the one initQualityGovernor
\* installs for StateManager and one of another component
SubscriberNames == {"stateManager", "listener"}

SubscriberSet(subs) == {subs[i] : i \in 1..Len(subs)}

\* The for loop of notifySubscribers over the Set: each callback is called
\* with the update inside its own try/catch, so one that throws (a member
\* of throwers) is logged and the loop goes on
RECURSIVE Deliver_NoCatch(_, _, _, _)
Deliver_NoCatch(subs, throwers, update, rec) ==
    IF subs = <<>> THEN rec
    ELSE IF Head(subs) \in throwers
    THEN [rec EXCEPT ![Head(subs)] = update]
    ELSE Deliver_NoCatch(Tail(subs), throwers, update,
                         [rec EXCEPT ![Head(subs)] = update])

RECURSIVE Deliver(_, _, _, _)
Deliver(subs, throwers, update, rec) ==
    IF subs = <<>> THEN rec
    ELSE Deliver(Tail(subs), throwers, update,
                 [rec EXCEPT ![Head(subs)] = update])

\* subscribe(callback): Set.add keeps the first insertion of a callback
GovSubscribe(subs, name) ==
    IF name \in SubscriberSet(subs) THEN subs ELSE Append(subs, name)

\* The function subscribe returns: subscribers.delete(callback)
GovUnsubscribe(subs, name) == SelectSeq(subs, LAMBDA n : n # name)

\* One frame of transitionLoop (requestAnimationFrame reschedules it
\* unconditionally). A frame that broadcasts calls every subscriber;
\* throwers are the subscribers that throw in this frame.
TransitionFrame(throwers) ==
    LET t == GovTick(governor)
    IN /\ governor' = t.governor
       /\ globals' = TickGlobals(t, globals)
       /\ systems' = TickSystems(t, systems)
       /\ notified' = TickNotified(t, notified)
       /\ threw' = IF t.kind = "idle" THEN threw
                   ELSE throwers \cap SubscriberSet(subscribers)
       /\ received' = IF t.kind = "idle" THEN received
                      ELSE Deliver(subscribers, throwers, Notification(t),
                                   received)
       /\ lastCall' = [op |-> "tick", arg |-> t.governor.transitionProgress,
                       result |-> t.kind]
       /\ UNCHANGED <<particlePool, held, systemOrder, updateLog, particle,
                      setCalls, lvs, stateManager, lastReading, subscribers,
                      extNoSubscribers>>

\* A frame in which any of the subscribers may throw
TransitionLoop == \E throwers \in SUBSET SubscriberNames : TransitionFrame(throwers)

\* qualityGovernor.subscribe(callback)
Subscribe(name) ==
    /\ subscribers' = GovSubscribe(subscribers, name)
    /\ lastCall' = [op |-> "subscribe", arg |-> 0, result |-> name]
    /\ UNCHANGED <<particlePool, held, sysVars, particle, qualityVars, received,
                   threw, extNoSubscribers>>

\* Calling the function subscribe returned for the callback; what the
\* callback received is recorded for as long as it is subscribed
Unsubscribe(name) ==
    /\ subscribers' = GovUnsubscribe(subscribers, name)
    /\ received' = [received EXCEPT ![name] = NoNotification]
    /\ lastCall' = [op |-> "unsubscribe", arg |-> 0, result |-> name]
    /\ UNCHANGED <<particlePool, held, sysVars, particle, qualityVars, threw,
                   extNoSubscribers>>

\* qualityGovernor.setQualityLevel(level) called from outside
SetQualityLevel(level) ==
    /\ setCalls < MaxSetCalls
    /\ setCalls' = setCalls + 1
    /\ LET s == GovSetQualityLevel(governor, level)
       IN /\ governor' = s.governor
          /\ lastCall' = [op |-> "setQualityLevel",
                          arg |-> IF level \in LevelSet THEN IndexOf(level) ELSE 0,
                          result |-> IF s.result THEN "true" ELSE "false"]
    /\ UNCHANGED <<particlePool, held, sysVars, particle, globals, notified,
                   lvs, stateManager, lastReading, extVars>>

\* What getGPUInfo() may return as renderer, by the substrings they hold
RtxRenderers == {"NVIDIA GeForce RTX 3080", "AMD Radeon Pro 5500M"}
GtxRenderers == {"NVIDIA GeForce GTX 1060", "AMD Radeon RX 580"}
IrisRenderers == {"Intel Iris Xe Graphics"}
IntelRenderers == {"Intel HD Graphics 620"}

\* the GPU scoring of detectDeviceTier
GpuScore(gpuRenderer) ==
    IF gpuRenderer \in RtxRenderers THEN 50
    ELSE IF gpuRenderer \in GtxRenderers THEN 30
    ELSE IF gpuRenderer \in IrisRenderers THEN 20
    ELSE IF gpuRenderer \in IntelRenderers THEN 10
    ELSE 0

\* value || 4, with 0 for a value the browser does not give
OrFour(value) == IF value = 0 THEN 4 ELSE value

\* the score of detectDeviceTier()
DeviceScore(d) ==
    LET score == GpuScore(d.renderer) + Min(OrFour(d.memory), 8) * 5
                 + Min(OrFour(d.cores), 8) * 5
    IN IF d.mobile THEN (score * 6) \div 10 ELSE score

\* detectDeviceTier()
DetectDeviceTier(d) ==
    IF DeviceScore(d) >= 100 THEN "ultra"
    ELSE IF DeviceScore(d) >= 70 THEN "high"
    ELSE IF DeviceScore(d) >= 40 THEN "medium"
    ELSE IF DeviceScore(d) >= 20 THEN "low"
    ELSE "minimal"

\* The state new QualityGovernor() leaves for a detected device tier: the
\* constructor calls setQualityLevel(deviceTier) and runs the first frame
\* of transitionLoop itself.
ConstructedTick(deviceTier) ==
    GovTick(GovSetQualityLevel(NewGovernor, deviceTier).governor)

\* PERFORMANCE_THRESHOLDS.maxActiveParticles as configured; window.renderScale
\* is undefined (0) until applySettings assigns it.
InitialGlobals == [maxActiveParticles |-> ConfiguredMaxActiveParticles,
                   renderScale |-> 0]

-----------------------------------------------------------------------------
(* LakeVisualizationSystem and StateManager.setQualityLevel *)

\* this.qualitySettings of LakeVisualizationSystem, fractions in hundredths
LvsQualitySettings ==
    [high   |-> [particleMultiplier |-> 100, glowEffects |-> TRUE,
                 animationComplexity |-> 100, renderDistance |-> 100],
     medium |-> [particleMultiplier |-> 70, glowEffects |-> TRUE,
                 animationComplexity |-> 70, renderDistance |-> 80],
     low    |-> [particleMultiplier |-> 40, glowEffects |-> FALSE,
                 animationComplexity |-> 40, renderDistance |-> 50]]

\* The bounds the sampled metrics are compared against
PoorFps == 25
PoorMemory == 150
GoodFps == 55
GoodMemory == 100

\* Samples on both sides of every bound and on the bounds themselves:
\* metrics.fps, and metrics.memoryUsage in megabytes
FpsSamples == {PoorFps - 5, PoorFps, 40, GoodFps, GoodFps + 5}
MemorySamples == {GoodMemory - 10, GoodMemory, 120, PoorMemory, PoorMemory + 10}

\* How adaptQualityBasedOnPerformance judges a sample
Reading(fps, memory) ==
    IF fps < PoorFps \/ memory > PoorMemory THEN "poor"
    ELSE IF fps > GoodFps /\ memory < GoodMemory THEN "good"
    ELSE "steady"

\* newQuality of adaptQualityBasedOnPerformance
NewQuality_ToLowest(currentQuality, reading) ==
    IF reading = "poor" THEN "low"
    ELSE IF reading = "good" THEN "high"
    ELSE currentQuality

NewQuality(currentQuality, reading) ==
    IF reading = "poor"
    THEN IF currentQuality = "high" THEN "medium"
         ELSE IF currentQuality = "medium" THEN "low"
         ELSE currentQuality
    ELSE IF reading = "good"
    THEN IF currentQuality = "low" THEN "medium"
         ELSE IF currentQuality = "medium" THEN "high"
         ELSE currentQuality
    ELSE currentQuality

\* applyQualitySettings on one particle system: an active system keeps the
\* first floor(multiplier * length) particles (splice) and takes the
\* rendering settings of the quality; an inactive one is skipped.
ApplyQualityToSystem(sys, quality) ==
    IF ~sys.active THEN sys
    ELSE LET targetCount == (QUALITY_PRESETS[quality].particleMultiplier
                             * Len(sys.particles)) \div ProgressDone
         IN [sys EXCEPT
               !.particles = IF Len(sys.particles) > targetCount
                             THEN SubSeq(sys.particles, 1, targetCount)
                             ELSE sys.particles,
               !.effectComplexity = LvsQualitySettings[quality].animationComplexity,
               !.glowEffects = LvsQualitySettings[quality].glowEffects]

\* StateManager.setQualityLevel(level) with the governor installed: the
\* level is stored, handed to the governor, and qualityChanged is dispatched
\* whatever the governor answered.
StateManagerSetQualityLevel(sm, g, level) ==
    [stateManager |-> [qualityLevel |-> level, lastEvent |-> level],
     governor |-> GovSetQualityLevel(g, level).governor]

\* A caller of StateManager.setQualityLevel(level)
RequestQualityLevel(level) ==
    /\ setCalls < MaxSetCalls
    /\ setCalls' = setCalls + 1
    /\ LET s == StateManagerSetQualityLevel(stateManager, governor, level)
       IN /\ stateManager' = s.stateManager
          /\ governor' = s.governor
    /\ lastCall' = [op |-> "StateManager.setQualityLevel", arg |-> 0,
                    result |-> level]
    /\ UNCHANGED <<particlePool, held, sysVars, particle, globals, notified,
                   lvs, lastReading, extVars>>

\* One firing of the interval timer: adaptQualityBasedOnPerformance with the
\* monitor's current metrics, and applyQualitySettings when the quality moved
AdaptQualityBasedOnPerformance(fps, memory) ==
    LET reading    == Reading(fps, memory)
        newQuality == NewQuality(lvs.currentQuality, reading)
        changed    == newQuality # lvs.currentQuality
        s == StateManagerSetQualityLevel(stateManager, governor, newQuality)
    IN /\ lastReading' = reading
       /\ lvs' = [lvs EXCEPT !.currentQuality = newQuality]
       /\ systems' = IF changed
                     THEN [l \in DOMAIN systems |->
                             ApplyQualityToSystem(systems[l], newQuality)]
                     ELSE systems
       /\ stateManager' = IF changed THEN s.stateManager ELSE stateManager
       /\ governor' = IF changed THEN s.governor ELSE governor
       /\ lastCall' = [op |-> "adapt", arg |-> 0, result |-> reading]
       /\ UNCHANGED <<particlePool, held, systemOrder, updateLog, particle,
                      globals, notified, setCalls, extVars>>

\* The quality variables once StateManager has built the governor for a
\* detected device tier, subscribed its own callback (the constructor's
\* frame ran before that, with no subscriber) and built the visualization
\* system
InitQuality(deviceTiers) ==
    \E deviceTier \in deviceTiers :
        LET t == ConstructedTick(deviceTier)
        IN /\ governor = t.governor
           /\ globals = TickGlobals(t, InitialGlobals)
           /\ notified = TickNotified(t, NoNotification)
           /\ setCalls = 0
           /\ lvs = [currentQuality |-> "high"]
           /\ stateManager = [qualityLevel |-> "high", lastEvent |-> NULL]
           /\ lastReading = "none"
           /\ subscribers = <<"stateManager">>
           /\ received = [n \in SubscriberNames |-> NoNotification]
           /\ threw = {}

---------------------------------------------------------------------------
(* The particle systems of two lakes sharing the pool *)

NoLog == [kept |-> 0, added |-> 0]

NoQuery == [bounds |-> <<>>, result |-> <<>>]

\* new SpatialGrid() in initializeStateManager; nothing in the program
\* assigns screenX or screenY to a particle
InitGrid ==
    /\ spatialGrid = NewSpatialGrid
    /\ screen = <<>>
    /\ queryResult = NoQuery

\* The optimizer, and one renderer for each particle system built
InitRender(order) ==
    /\ optimizer = NewParticleOptimizer
    /\ renderer = [l \in {order[i] : i \in 1..Len(order)} |-> NewLakeRenderer]

\* new MapIntegrator(map): no listener yet, no map event yet
InitViewport ==
    /\ viewportListeners = <<>>
    /\ dispatch = NoDispatch

\* new FlowController()
InitFlow ==
    /\ flowPatterns = {}
    /\ activePatterns = <<>>

\* The main loop requested by initializeApp, and new EventHandler(map)
InitLoops == loops = NewLoops

\* A particle with its level of detail not yet set
InitLodParticle == lodParticle = NewLodParticle(100, 80)

\* calculateLODLevel not called yet
NoLodQuery == [distance |-> -1, level |-> -1, previousDistance |-> -1,
               previousLevel |-> -1]

InitLodQuery == lodQuery = NoLodQuery

\* A moving particle no boundary policy has touched: isFrozen, frozenTime,
\* frozenDuration and originalVelocity are undefined, here FALSE and -1
NewFlowParticle(velocity) ==
    [velocity |-> velocity, isFrozen |-> FALSE, frozenTime |-> -1,
     frozenDuration |-> -1, originalVelocity |-> -1]

InitFlowParticle == flowParticle = NewFlowParticle(1000)

InitFluid == fluid = NewFluidSimulation

\* A desktop device on which detectDeviceTier returns 'high'
InitDevice ==
    device = [renderer |-> "NVIDIA GeForce GTX 1060", memory |-> 4,
              cores |-> 4, mobile |-> FALSE]

\* PERFORMANCE_THRESHOLDS as config/constants.js defines it
InitThresholds ==
    thresholds = [cullingDistance |-> TenThousandths(CullingDistance),
                  adaptCalls |-> 0]

\* new LakeManager(map), with StateManager.activeLakeName as the constructor
\* of StateManager sets it
NewLakeManager ==
    [isTransitioning |-> FALSE, flyTimeout |-> "none", activeLakeName |-> "wular"]

InitLakeManager == lakeManager = NewLakeManager

\* The number of items processChunk hands to the processor in one call
BatchSize == 100

\* new BatchProcessor(). frame is the start index the pending animation
\* frame callback carries with its batch, -1 when none is pending. sizes,
\* log and runItems are not fields of the object: the length of every
\* batch added, what the processors and onComplete callbacks were called
\* with, in order, and the number of items handed over in the current run.
NoBatch == [id |-> 0, size |-> 0, processed |-> 0]

NewBatchProcessor ==
    [batches |-> <<>>, isProcessing |-> FALSE, currentBatch |-> NoBatch,
     frame |-> [batch |-> NoBatch, startIdx |-> -1],
     sizes |-> <<>>, log |-> <<>>, runItems |-> 0]

InitBatchProcessor == batchProcessor = NewBatchProcessor

InitLate == InitLakeManager /\ InitBatchProcessor

\* The components modelled one at a time, as they are built
InitSolo ==
    /\ InitLodParticle /\ InitThresholds /\ InitLodQuery /\ InitFlowParticle
    /\ InitFluid /\ InitDevice /\ InitLate

\* The components initializeApplication builds besides the particle systems
InitComponents == InitViewport /\ InitFlow /\ InitLoops

\* An application without particle systems, for the specifications of one
\* component: everything but the variables of soloVars
InitCore ==
    /\ InitQuality({"high"})
    /\ particlePool = NewParticlePool(PoolSize)
    /\ held = <<>>
    /\ systemOrder = <<>>
    /\ systems = <<>>
    /\ updateLog = <<>>
    /\ particle = NewParticle(0)
    /\ lastCall = NoCall
    /\ InitGrid
    /\ InitRender(<<>>)
    /\ InitComponents

\* One component built on its own, next to nothing else of the application
InitAlone == InitCore /\ InitSolo

InitSystems(order) ==
    /\ InitSolo
    /\ InitQuality({"high"})
    /\ particlePool = NewParticlePool(PoolSize)
    /\ held = <<>>
    /\ systemOrder = order
    /\ systems = [l \in {order[i] : i \in 1..Len(order)} |-> NewParticleSystem(l)]
    /\ updateLog = [l \in {order[i] : i \in 1..Len(order)} |-> NoLog]
    /\ particle = NewParticle(0)
    /\ lastCall = NoCall
    /\ InitGrid
    /\ InitRender(order)
    /\ InitComponents

Init == InitSystems(<<"wular", "pangong">>)

Next ==
    \/ \E lake \in DOMAIN systems : Activate(lake)
    \/ \E lake \in DOMAIN systems : Deactivate(lake)
    \/ \E lake \in DOMAIN systems, delta \in Deltas : Update(lake, delta)
    \/ \E lake \in DOMAIN systems : Dispose(lake)
    \/ \E delta \in Deltas, low \in BOOLEAN : UpdateParticleSystems(delta, low)

Spec == Init /\ [][Next]_vars

---------------------------------------------------------------------------
(* One lake whose particleLimit exceeds the replenish batch *)

InitThrottle == InitSystems(<<"pushkar">>)

SpecThrottle == InitThrottle /\ [][Next]_vars

---------------------------------------------------------------------------
(* The pool called directly: acquire, release and resize by one caller *)

RemoveAt(seq, i) == SubSeq(seq, 1, i - 1) \o SubSeq(seq, i + 1, Len(seq))

Acquire(lifespanDraw) ==
    /\ Len(held) < MaxHeld
    /\ Acquires(particlePool) < MaxAcquires
    /\ LET a == PoolAcquire(particlePool, IdsOf(held), lifespanDraw)
       IN /\ particlePool' = a.pp
          /\ held' = Append(held, a.particle)
          /\ lastCall' = [op |-> "acquire", arg |-> a.particle.id, result |-> "ok"]
    /\ UNCHANGED <<sysVars, particle, qualityVars, extVars>>

Release(i) ==
    /\ particlePool' = PoolRelease(particlePool, held[i])
    /\ held' = RemoveAt(held, i)
    /\ lastCall' = [op |-> "release", arg |-> held[i].id,
                    result |-> IF Len(particlePool'.pool) > Len(particlePool.pool)
                               THEN "pushed" ELSE "dropped"]
    /\ UNCHANGED <<sysVars, particle, qualityVars, extVars>>

Resize(newSize) ==
    /\ particlePool' = PoolResize(particlePool, newSize)
    /\ lastCall' = [op |-> "resize", arg |-> newSize, result |-> "ok"]
    /\ UNCHANGED <<held, sysVars, particle, qualityVars, extVars>>

\* acquire(...) by the caller when init throws: the caller gets the
\* exception and no particle
AcquireThrows ==
    /\ Acquires(particlePool) < MaxAcquires
    /\ particlePool.activeCount - Len(held) < MaxThrows
    /\ particlePool' = PoolAcquireThrown(particlePool)
    /\ lastCall' = [op |-> "acquire", arg |-> 0, result |-> "threw"]
    /\ UNCHANGED <<held, sysVars, particle, qualityVars, extVars>>

\* release(held[i]) by the caller when reset throws: the caller gets the
\* exception and still has the particle
ReleaseThrows(i) ==
    /\ Len(held) - particlePool.activeCount < MaxThrows
    /\ particlePool' = PoolReleaseThrown(particlePool)
    /\ lastCall' = [op |-> "release", arg |-> held[i].id, result |-> "threw"]
    /\ UNCHANGED <<held, sysVars, particle, qualityVars, extVars>>

InitPool == InitSystems(<<>>)

NextPool ==
    \/ \E draw \in Lifespans : Acquire(draw)
    \/ \E i \in 1..Len(held) : Release(i)
    \/ \E newSize \in 0..MaxResize : Resize(newSize)

SpecPool == InitPool /\ [][NextPool]_vars

\* release(p) once more by a caller that kept its reference to the particle
\* it has just released into the free list
ReleaseAgain ==
    /\ lastCall.op = "release" /\ lastCall.result = "pushed"
    /\ LET p == particlePool.pool[Len(particlePool.pool)]
       IN /\ particlePool' = PoolRelease(particlePool, p)
          /\ lastCall' = [op |-> "release", arg |-> p.id, result |-> "again"]
    /\ UNCHANGED <<held, sysVars, particle, qualityVars, extVars>>

\* Any sequence of acquire and release calls, a release of a particle that
\* was released already among them
NextPoolAny ==
    \/ NextPool
    \/ ReleaseAgain

SpecPoolAny == InitPool /\ [][NextPoolAny]_vars

\* The same caller with particles whose init or reset may throw
NextPoolThrows ==
    \/ NextPool
    \/ AcquireThrows
    \/ \E i \in 1..Len(held) : ReleaseThrows(i)

SpecPoolThrows == InitPool /\ [][NextPoolThrows]_vars

---------------------------------------------------------------------------
(* One particle driven through its own methods *)

LakeTypes == {"Freshwater Lake", "High Altitude Lake", "Sacred Lake", "Salt Lake"}

Bool(b) == IF b THEN "true" ELSE "false"

ParticleInitCall(lifespanDraw) ==
    /\ particle' = ParticleInit(particle, lifespanDraw)
    /\ lastCall' = [op |-> "init", arg |-> lifespanDraw, result |-> "ok"]
    /\ UNCHANGED <<particlePool, held, sysVars, qualityVars, extVars>>

ParticleUpdateCall(deltaTime) ==
    /\ particle' = ParticleUpdate(particle, deltaTime).particle
    /\ lastCall' = [op |-> "update", arg |-> deltaTime,
                    result |-> Bool(ParticleUpdate(particle, deltaTime).keep)]
    /\ UNCHANGED <<particlePool, held, sysVars, qualityVars, extVars>>

ParticleResetCall ==
    /\ particle' = ParticleReset(particle)
    /\ lastCall' = [op |-> "reset", arg |-> 0, result |-> "ok"]
    /\ UNCHANGED <<particlePool, held, sysVars, qualityVars, extVars>>

CustomizeCall(lakeType) ==
    /\ particle' = CustomizeParticle(particle, lakeType)
    /\ lastCall' = [op |-> "customize", arg |-> 0, result |-> lakeType]
    /\ UNCHANGED <<particlePool, held, sysVars, qualityVars, extVars>>

NextParticle ==
    \/ \E draw \in Lifespans : ParticleInitCall(draw)
    \/ \E deltaTime \in Deltas : ParticleUpdateCall(deltaTime)
    \/ ParticleResetCall
    \/ \E lakeType \in LakeTypes : CustomizeCall(lakeType)

SpecParticle == InitPool /\ [][NextParticle]_vars

-----------------------------------------------------------------------------
(* The governor on its own: frames of its loop and calls from outside *)

\* A particle system built for the lake and registered, as the governor's
\* applySettings would find it, for every device tier
InitQualitySystems(order) ==
    /\ InitQuality(LevelSet)
    /\ particlePool = NewParticlePool(PoolSize)
    /\ held = <<>>
    /\ systemOrder = order
    /\ systems = [l \in {order[i] : i \in 1..Len(order)} |-> NewParticleSystem(l)]
    /\ updateLog = [l \in {order[i] : i \in 1..Len(order)} |-> NoLog]
    /\ particle = NewParticle(0)
    /\ lastCall = NoCall
    /\ InitGrid
    /\ InitRender(order)
    /\ InitComponents
    /\ InitSolo

InitGovernor == InitQualitySystems(<<"wular">>)

\* Levels a caller may pass: the five presets and one that is none of them
CalledLevels == LevelSet \cup {"extreme"}

\* The governor with a subscriber that does not throw
NextGovernor ==
    \/ TransitionFrame({})
    \/ \E level \in CalledLevels : SetQualityLevel(level)

\* requestAnimationFrame runs transitionLoop again after every frame
SpecGovernor ==
    InitGovernor /\ [][NextGovernor]_vars /\ WF_vars(TransitionFrame({}))

\* The governor with callbacks subscribing and unsubscribing
NextNotify ==
    \/ TransitionLoop
    \/ \E level \in LevelSet : SetQualityLevel(level)
    \/ \E name \in SubscriberNames : Subscribe(name)
    \/ \E name \in SubscriberNames : Unsubscribe(name)

\* The application as it starts on a device detected as "high"
InitNotify == InitSystems(<<"wular">>)

SpecNotify == InitNotify /\ [][NextNotify]_vars

-----------------------------------------------------------------------------
(* Automatic adaptation: the interval timer beside the governor's loop *)

InitAdapt == InitQualitySystems(<<"pangong">>)

NextAdapt ==
    \/ TransitionLoop
    \/ \E fps \in FpsSamples, memory \in MemorySamples :
          AdaptQualityBasedOnPerformance(fps, memory)
    \/ \E lake \in DOMAIN systems : Activate(lake)

SpecAdapt == InitAdapt /\ [][NextAdapt]_vars

---------------------------------------------------------------------------
(* Claims about the pool and the particle systems *)

RECURSIVE SystemParticles(_)
SystemParticles(order) ==
    IF order = <<>> THEN <<>>
    ELSE systems[Head(order)].particles \o SystemParticles(Tail(order))

\* every particle reference an owner holds: the systems' lists, the pool's
\* free list and the direct caller's particles
AllOwned == SystemParticles(systemOrder) \o particlePool.pool \o held

\* C1: after every operation a Particle instance is held by at most one
\* owner: it is in at most one system's particle list, once, and never in a
\* list and in the pool's free list at once
C1_ExclusiveOwnership ==
    \A i, j \in 1..Len(AllOwned) : i # j => AllOwned[i].id # AllOwned[j].id

\* a particle pangong acquired and released is now owned by wular (only
\* pangong sets sparkle), while pangong holds particles of its own
C1_Witness ==
    /\ "wular" \in DOMAIN systems
    /\ \E i \in 1..Len(systems["wular"].particles) :
          systems["wular"].particles[i].sparkle
    /\ systems["pangong"].particles # <<>>

\* C2: after every operation pool.activeCount equals the number of particles
\* held in all systems' particle lists
C2_ActiveCountMatchesLists ==
    particlePool.activeCount = Len(SystemParticles(systemOrder))

\* C3: the free-list length never exceeds maxSize, and a release on a pool
\* whose free list holds maxSize particles leaves the free list as it was
C3_FreeListBounded ==
    /\ [](Len(particlePool.pool) <= particlePool.maxSize)
    /\ [][(/\ lastCall'.op = "release"
           /\ Len(particlePool.pool) = particlePool.maxSize)
          => (/\ particlePool'.pool = particlePool.pool
              /\ lastCall'.result = "dropped")]_vars

\* a release found the free list full and dropped the particle
C3_Witness ==
    /\ lastCall.op = "release"
    /\ lastCall.result = "dropped"
    /\ particlePool.maxSize > 0
    /\ Len(particlePool.pool) = particlePool.maxSize

\* C4: len(particles) <= particleLimit in every state, and an update adds at
\* most min(10, particleLimit - len) particles, len being the length its
\* filter left
C4_LimitAndThrottle ==
    \A lake \in DOMAIN systems :
        /\ Len(systems[lake].particles) <= systems[lake].particleLimit
        /\ updateLog[lake].added <=
              Min(ReplenishBatch, systems[lake].particleLimit - updateLog[lake].kept)

\* an update was held to the batch of 10 and left the list short of its limit
C4_Witness ==
    \E lake \in DOMAIN systems :
        /\ updateLog[lake].added = ReplenishBatch
        /\ updateLog[lake].kept + ReplenishBatch < systems[lake].particleLimit
        /\ Len(systems[lake].particles) < systems[lake].particleLimit

Flags(p) ==
    [crystalline |-> p.crystalline, sparkle |-> p.sparkle,
     glowIntensity |-> p.glowIntensity]

\* C6: the public state of a particle that was reset and initialised depends
\* only on the init arguments, the type configuration and the draws: every
\* particle of a system has the flags a new object gets there
C6_ResetPurity ==
    \A lake \in DOMAIN systems :
        \A i \in 1..Len(systems[lake].particles) :
            Flags(systems[lake].particles[i]) =
                Flags(CustomizeParticle(
                        ParticleInit(ParticleReset(NewParticle(0)),
                                     systems[lake].particles[i].lifespan),
                        systems[lake].lakeType))

-----------------------------------------------------------------------------
(* Claims about the governor and the automatic adaptation *)

Settled(level) ==
    /\ governor.currentLevel = level
    /\ governor.targetLevel = NULL
    /\ governor.transitionProgress = ProgressDone

\* C7: once setQualityLevel(B) has set the target and no further call is
\* made (the budget of calls is spent), the frames of the loop eventually
\* reach currentLevel = B, targetLevel = null and transitionProgress = 1;
\* and currentLevel changes on no step but the one that completes the
\* transition, which moves it to the target.
C7_TransitionConverges ==
    /\ \A B \in LevelSet :
          (governor.targetLevel = B /\ setCalls = MaxSetCalls) ~> Settled(B)
    /\ [][governor'.currentLevel # governor.currentLevel
            => /\ lastCall'.op = "tick"
               /\ governor'.currentLevel = governor.targetLevel
               /\ governor'.targetLevel = NULL
               /\ governor'.transitionProgress = ProgressDone]_vars

\* A transition from minimal to ultra, which only a call made after the
\* construction starts, has run through all its frames and completed.
C7_Witness ==
    /\ lastCall.op = "tick" /\ lastCall.result = "complete"
    /\ Settled("ultra")
    /\ globals.maxActiveParticles =
         Floor(InterpolatedSettings(
                 [currentLevel |-> "minimal", targetLevel |-> "ultra",
                  transitionProgress |-> ProgressDone - TransitionSpeed]).maxParticles)

\* The settings the governor's state stands for: the interpolation while a
\* transition runs, the preset of currentLevel once it is settled
ExpectedSettings ==
    IF governor.targetLevel = NULL THEN PresetSettings(governor.currentLevel)
    ELSE InterpolatedSettings(governor)

\* C8: after every frame that moves a transition, maxActiveParticles and
\* each system's particleMultiplier are the interpolation between the
\* presets of currentLevel and targetLevel at transitionProgress, and after
\* the frame that completes a transition to B they are QUALITY_PRESETS[B].
C8_AppliedSettingsInterpolated ==
    (lastCall.op = "tick" /\ lastCall.result \in {"intermediate", "complete"})
    => /\ globals.maxActiveParticles = Floor(ExpectedSettings.maxParticles)
       /\ \A l \in DOMAIN systems :
             systems[l].particleMultiplier = ExpectedSettings.particleMultiplier

\* The positions the governor's tier can be said to hold: that of
\* currentLevel and, while a transition runs, that of its target
GovernorPositions ==
    {IndexOf(governor.currentLevel)}
    \cup (IF governor.targetLevel = NULL THEN {}
          ELSE {IndexOf(governor.targetLevel)})

\* C9: every adaptation step that moves the governor sets its target one
\* position below the governor's tier after a poor reading and one position
\* above it after a good reading, whatever tier the startup selected.
C9_AdaptationStepsOneTier ==
    [][(lastCall'.op = "adapt" /\ governor' # governor)
         => /\ lastReading' \in {"poor", "good"}
            /\ lastReading' = "poor" =>
                 \E b \in GovernorPositions : IndexOf(governor'.targetLevel) = b + 1
            /\ lastReading' = "good" =>
                 \E b \in GovernorPositions : IndexOf(governor'.targetLevel) = b - 1]_vars

\* C10: the adaptation changes its quality tier only on a poor reading that
\* follows a poor reading (down) or a good reading that follows a good
\* reading (up).
C10_TwoConsecutiveReadings ==
    [][lvs'.currentQuality # lvs.currentQuality
         => /\ lastReading' = lastReading
            /\ lastReading' \in {"poor", "good"}]_vars

-----------------------------------------------------------------------------
(* The grid called directly: frames of clear, insert and query *)

\* Particle objects whose screen coordinates are set, or left unset
GridParticleIds == 1..GridParticleCount

\* Points left of zero, on a cell boundary and inside a cell; a particle
\* given no point stands at (0, 0)
ScreenPoints == {[x |-> -1, y |-> CellSize], [x |-> CellSize, y |-> 0],
                 [x |-> 2 * CellSize + 50, y |-> CellSize]}

ScreenChoices ==
    UNION {[ids -> ScreenPoints] : ids \in SUBSET GridParticleIds}

\* Viewports whose edges lie on cell boundaries and between them, and none
QueryBounds ==
    {<<left, right, 0, CellSize \div 2>> :
        left \in {-CellSize - 50, CellSize \div 2},
        right \in {CellSize \div 2, CellSize + 50, 2 * CellSize}}
    \cup {<<>>}

ClearGrid ==
    /\ spatialGrid' = GridClear(spatialGrid)
    /\ lastCall' = [op |-> "clear", arg |-> 0, result |-> "ok"]
    /\ UNCHANGED <<particlePool, held, sysVars, particle, qualityVars, screen,
                   queryResult, extNoGrid>>

\* insert(particle), once per particle and frame as the frame loop does
InsertParticle(id) ==
    /\ id \notin {GridParticles(spatialGrid.grid)[i] :
                     i \in 1..Len(GridParticles(spatialGrid.grid))}
    /\ spatialGrid' = GridInsert(spatialGrid, id)
    /\ lastCall' = [op |-> "insert", arg |-> id, result |-> "ok"]
    /\ UNCHANGED <<particlePool, held, sysVars, particle, qualityVars, screen,
                   queryResult, extNoGrid>>

\* query(bounds); culledParticles grows with every query until the next clear
QueryGrid(bounds) ==
    /\ spatialGrid.culledParticles < MaxCulled
    /\ LET q == GridQuery(spatialGrid, bounds)
       IN /\ spatialGrid' = q.grid
          /\ queryResult' = [bounds |-> bounds, result |-> q.result]
    /\ lastCall' = [op |-> "query", arg |-> 0, result |-> "ok"]
    /\ UNCHANGED <<particlePool, held, sysVars, particle, qualityVars, screen,
                   extNoGrid>>

InitSpatialGrid ==
    /\ InitQuality({"high"})
    /\ particlePool = NewParticlePool(PoolSize)
    /\ held = <<>>
    /\ systemOrder = <<>>
    /\ systems = <<>>
    /\ updateLog = <<>>
    /\ particle = NewParticle(0)
    /\ lastCall = NoCall
    /\ spatialGrid = NewSpatialGrid
    /\ screen \in ScreenChoices
    /\ queryResult = NoQuery
    /\ InitRender(<<>>)
    /\ InitComponents
    /\ InitSolo

NextGrid ==
    \/ ClearGrid
    \/ \E id \in GridParticleIds : InsertParticle(id)
    \/ \E bounds \in QueryBounds : QueryGrid(bounds)

SpecGrid == InitSpatialGrid /\ [][NextGrid]_vars

-----------------------------------------------------------------------------
(* Claims about the spatial grid *)

GridIds == {GridParticles(spatialGrid.grid)[i] :
               i \in 1..Len(GridParticles(spatialGrid.grid))}

ActiveListIds ==
    UNION {IdsOf(systems[l].particles) : l \in {k \in DOMAIN systems : systems[k].active}}

\* C11: at the end of every frame of updateParticleSystems the grid holds
\* exactly the particles in the lists of the active systems, each once.
C11_GridMatchesActiveLists ==
    [][(\E delta \in Deltas, low \in BOOLEAN : UpdateParticleSystems(delta, low))
         => /\ GridIds' = ActiveListIds'
            /\ Len(GridParticles(spatialGrid.grid))' = Cardinality(GridIds)']_vars

\* How often a particle occurs in a list of particles
Occurrences(id, list) == Cardinality({i \in 1..Len(list) : list[i] = id})

\* The half-open square of screen positions a cell key stands for
InCell(cellKey, x, y) ==
    /\ cellKey[1] * CellSize <= x /\ x < (cellKey[1] + 1) * CellSize
    /\ cellKey[2] * CellSize <= y /\ y < (cellKey[2] + 1) * CellSize

\* C12: between two clears every inserted particle is in exactly one cell
\* list, exactly once, and a particle with a screen position is in the cell
\* whose square holds that position, so that x = k*cellSize falls in cell k.
C12_OneCellPerParticle ==
    /\ Len(GridParticles(spatialGrid.grid)) = spatialGrid.particles
    /\ lastCall.op = "insert" =>
          Occurrences(lastCall.arg, GridParticles(spatialGrid.grid)) = 1
    /\ \A i \in 1..Len(spatialGrid.grid) :
          \A j \in 1..Len(spatialGrid.grid[i].particles) :
             LET id == spatialGrid.grid[i].particles[j]
             IN /\ Occurrences(id, GridParticles(spatialGrid.grid)) = 1
                /\ id \in DOMAIN screen =>
                      InCell(spatialGrid.grid[i].key, screen[id].x, screen[id].y)

\* Two particles are in the grid, one of them on the boundary x = cellSize
\* and held by the cell of index 1, the other left of zero
C12_Witness ==
    /\ spatialGrid.particles = 2
    /\ \E i \in 1..Len(spatialGrid.grid) :
          /\ spatialGrid.grid[i].key[1] = 1
          /\ \E j \in 1..Len(spatialGrid.grid[i].particles) :
                LET id == spatialGrid.grid[i].particles[j]
                IN id \in DOMAIN screen /\ screen[id].x = CellSize
    /\ \E i \in 1..Len(spatialGrid.grid) : spatialGrid.grid[i].key[1] = -1

\* The square of a cell and the viewport rectangle have a point in common
CellIntersects(cellKey, bounds) ==
    /\ cellKey[1] * CellSize <= Right(bounds)
    /\ (cellKey[1] + 1) * CellSize > Left(bounds)
    /\ cellKey[2] * CellSize <= Bottom(bounds)
    /\ (cellKey[2] + 1) * CellSize > Top(bounds)

\* C13: query(bounds) returns every inserted particle whose cell intersects
\* the viewport exactly once, and no particle whose cell does not.
C13_QueryReturnsIntersecting ==
    (lastCall.op = "query" /\ queryResult.bounds # <<>>)
    => \A i \in 1..Len(spatialGrid.grid) :
          \A j \in 1..Len(spatialGrid.grid[i].particles) :
             Occurrences(spatialGrid.grid[i].particles[j], queryResult.result)
               = IF CellIntersects(spatialGrid.grid[i].key, queryResult.bounds)
                 THEN 1 ELSE 0

-----------------------------------------------------------------------------
(* Optimizing and rendering one lake's particle system *)

InitRenderLake == InitSystems(<<"pangong">>)

NextRender ==
    \/ \E lake \in DOMAIN systems : Activate(lake)
    \/ \E lake \in DOMAIN systems : Deactivate(lake)
    \/ \E lake \in DOMAIN systems : OptimizeParticleSystem(lake)
    \/ \E lake \in DOMAIN systems : Render(lake)

SpecRender == InitRenderLake /\ [][NextRender]_vars

\* The particles inside the draw range of a lake's renderer
Drawn(lake) ==
    {renderer[lake].written[i] :
        i \in 1..Min(renderer[lake].drawRange, Len(renderer[lake].written))}

\* C14: after a render, no particle the optimizer flagged visible = false
\* is among the particles written inside the renderer's draw range.
C14_CulledNotDrawn ==
    lastCall.op = "render"
    => \A lake \in DOMAIN systems :
          \A i \in 1..Len(systems[lake].particles) :
             systems[lake].particles[i].visible = "false"
             => systems[lake].particles[i].id \notin Drawn(lake)

-----------------------------------------------------------------------------
(* The map integrator and its listeners *)

NextViewport ==
    \/ \E l \in ListenerObjects \cup ListenerFunctions :
          RegisterViewportListener(l)
    \/ \E changed \in BOOLEAN, throwers \in SUBSET ListenerObjects :
          MapMove(changed, throwers)
    \/ \E throwers \in SUBSET ListenerObjects : MapZoom(throwers)

SpecViewport == InitSystems(<<"wular">>) /\ [][NextViewport]_vars

-----------------------------------------------------------------------------
(* Setting a quality level or a flow pattern by name *)

NextNames ==
    \/ \E level \in CalledLevels \cup ObjectPrototypeNames :
          SetQualityLevel(level)
    \/ \E name \in RegisteredPatternNames : RegisterFlowPattern(name)
    \/ \E lake \in FlowLakes, name \in CalledPatternNames :
          SetActivePattern(lake, name)

SpecNames == InitSystems(<<"wular">>) /\ [][NextNames]_vars

-----------------------------------------------------------------------------
(* Quality levels requested through StateManager *)

NextStateManager ==
    \/ TransitionLoop
    \/ \E level \in CalledLevels : RequestQualityLevel(level)

SpecStateManager == InitSystems(<<"wular">>) /\ [][NextStateManager]_vars

-----------------------------------------------------------------------------
(* The frame callbacks from start to teardown *)

NextLifecycle ==
    \/ \E lake \in DOMAIN systems : Activate(lake)
    \/ \E lake \in DOMAIN systems : Dispose(lake)
    \/ \E delta \in Deltas, low \in BOOLEAN : UpdateParticleSystems(delta, low)
    \/ TransitionLoop
    \/ \E m \in StartMomenta : StartMomentum(m)
    \/ MomentumFrame
    \/ DisposeHandler
    \/ Cleanup

SpecLifecycle == InitSystems(<<"wular">>) /\ [][NextLifecycle]_vars

-----------------------------------------------------------------------------
(* One particle and its level of detail *)

\* Sizes and opacities init can draw, and levels the optimizer can pass
LodSizes == {50, 100, 150, 200}
LodOpacities == {30, 55, 80}
LodLevels == {10, 25, 30, 50, 75, 100}

SetLODLevelCall(level) ==
    /\ lodParticle' = SetLODLevelAppearance(lodParticle, level)
    /\ lastCall' = [op |-> "setLODLevel", arg |-> level,
                    result |-> IF lodParticle.lodLevel = level THEN "same"
                               ELSE "changed"]
    /\ UNCHANGED <<particlePool, held, sysVars, particle, qualityVars,
                   gridVars, renderVars, subscriberVars, viewportVars,
                   flowVars, loopVars, soloNoLod>>

InitLod ==
    /\ InitCore
    /\ InitThresholds
    /\ InitLodQuery
    /\ InitFlowParticle
    /\ InitFluid
    /\ InitDevice
    /\ InitLate
    /\ \E size \in LodSizes, opacity \in LodOpacities :
          lodParticle = NewLodParticle(size, opacity)

NextLod == \E level \in LodLevels : SetLODLevelCall(level)

SpecLod == InitLod /\ [][NextLod]_vars

\* What Particle3D.reset does to the fields of the level of detail: size
\* and opacity become 1; lodLevel and the display fields are not mentioned
LodReset(p) == [p EXCEPT !.size = 100, !.opacity = 100]

\* What Particle3D.init does to them: size and opacity are drawn anew
LodInit(p, size, opacity) == [p EXCEPT !.size = size, !.opacity = opacity]

\* reset() of the particle, as ParticlePool.release calls it
LodResetCall ==
    /\ lodParticle' = LodReset(lodParticle)
    /\ lastCall' = [op |-> "reset", arg |-> 0, result |-> "ok"]
    /\ UNCHANGED <<particlePool, held, sysVars, particle, qualityVars,
                   gridVars, renderVars, subscriberVars, viewportVars,
                   flowVars, loopVars, soloNoLod>>

\* init(map, lakeCenter, lakeType) of the particle, as ParticlePool.acquire
\* calls it
LodInitCall(size, opacity) ==
    /\ lodParticle' = LodInit(lodParticle, size, opacity)
    /\ lastCall' = [op |-> "init", arg |-> size, result |-> "ok"]
    /\ UNCHANGED <<particlePool, held, sysVars, particle, qualityVars,
                   gridVars, renderVars, subscriberVars, viewportVars,
                   flowVars, loopVars, soloNoLod>>

\* A particle that goes back to the pool and out of it between the calls
\* of setLODLevel
NextLodReuse ==
    \/ \E level \in LodLevels : SetLODLevelCall(level)
    \/ LodResetCall
    \/ \E size \in LodSizes, opacity \in LodOpacities : LodInitCall(size, opacity)

SpecLodReuse == InitLod /\ [][NextLodReuse]_vars

-----------------------------------------------------------------------------
(* ParticleOptimizer.adaptToPerformance *)

\* the 5000 adaptToPerformance compares with and grows the distance up to
RelaxedDistance == 5000

\* PERFORMANCE_THRESHOLDS.cullingDistance * 0.8
ReducedDistance(distance) == (distance * 8) \div 10

\* Math.min(5000, PERFORMANCE_THRESHOLDS.cullingDistance * 1.1), if the
\* distance is below 5000
IncreasedDistance(distance) ==
    IF distance < TenThousandths(RelaxedDistance)
    THEN Min(TenThousandths(RelaxedDistance), (distance * 11) \div 10)
    ELSE distance

\* frames per second below lowFPS, between, at 90% of targetFPS and above
AdaptFps == {LowFPS - 10, LowFPS, (TargetFPS * 9) \div 10, TargetFPS}

\* adaptToPerformance(fps), as the observer of the performance monitor calls it
AdaptToPerformance(fps) ==
    /\ thresholds.adaptCalls < MaxAdaptCalls
    /\ IF fps < LowFPS
       THEN /\ optimizer' = [optimizer EXCEPT !.frustumCulling = TRUE,
                                              !.dynamicLOD = TRUE]
            /\ thresholds' =
                  [cullingDistance |-> ReducedDistance(thresholds.cullingDistance),
                   adaptCalls |-> thresholds.adaptCalls + 1]
       ELSE /\ optimizer' = optimizer
            /\ thresholds' =
                  [cullingDistance |->
                      IF fps * 10 > TargetFPS * 9
                      THEN IncreasedDistance(thresholds.cullingDistance)
                      ELSE thresholds.cullingDistance,
                   adaptCalls |-> thresholds.adaptCalls + 1]
    /\ lastCall' = [op |-> "adaptToPerformance", arg |-> fps,
                    result |-> IF fps < LowFPS THEN "low"
                               ELSE IF fps * 10 > TargetFPS * 9 THEN "good"
                               ELSE "between"]
    /\ UNCHANGED <<particlePool, held, sysVars, particle, qualityVars,
                   gridVars, renderer, subscriberVars, viewportVars,
                   flowVars, loopVars, soloNoThresholds>>

InitThresholdsAlone ==
    /\ InitCore /\ InitLodParticle /\ InitThresholds /\ InitLodQuery
    /\ InitFlowParticle /\ InitFluid /\ InitDevice /\ InitLate

NextThresholds == \E fps \in AdaptFps : AdaptToPerformance(fps)

SpecThresholds == InitThresholdsAlone /\ [][NextThresholds]_vars

-----------------------------------------------------------------------------
(* ParticleOptimizer.calculateLODLevel called directly *)

\* Distances at, between and beyond the thresholds of the table
LodQueryDistances ==
    {0, 1, 500, 999, 1000, 1001, 1500, 2000, 2500, 3000, 3500, 3999, 4000,
     4001, 4999, 5000, 5001, 9000}

\* calculateLODLevel(distance), the call before it kept for comparison
CalculateLODLevelCall(distance) ==
    /\ lodQuery' = [distance |-> distance,
                    level |-> CalculateLODLevel(distance),
                    previousDistance |-> lodQuery.distance,
                    previousLevel |-> lodQuery.level]
    /\ lastCall' = [op |-> "calculateLODLevel", arg |-> distance,
                    result |-> "ok"]
    /\ UNCHANGED <<particlePool, held, sysVars, particle, qualityVars,
                   gridVars, renderVars, subscriberVars, viewportVars,
                   flowVars, loopVars, soloNoLodQuery>>

InitLodQueryAlone ==
    /\ InitCore /\ InitLodParticle /\ InitThresholds /\ InitLodQuery
    /\ InitFlowParticle /\ InitFluid /\ InitDevice /\ InitLate

NextLodQuery == \E distance \in LodQueryDistances : CalculateLODLevelCall(distance)

SpecLodQuery == InitLodQueryAlone /\ [][NextLodQuery]_vars

-----------------------------------------------------------------------------
(* FlowController.applyFreezeBoundary *)

\* Times are in hundredths of a millisecond: the 16.67 ms a call adds
FrozenStep == 1667

\* 2000 + Math.random() * 3000 for draws of 0, of a value that makes the
\* duration a whole number of steps, of 0.5 and of a value just below 1
FrozenDurations == {200000, 120 * FrozenStep, 350000, 499999}

\* factor * (1 - minDist / margin) in hundredths for the factor 0.95 of the
\* freeze boundary: half way into the margin, and at the boundary
FreezeFactors == {48, 95}

\* 0.5 + Math.random() * 0.5, in hundredths
RestoreFactors == {50, 99}

\* particle.frozenTime >= particle.frozenDuration, tested late
UnfreezeDue_Late(p) == p.frozenTime > p.frozenDuration

\* particle.frozenTime >= particle.frozenDuration
UnfreezeDue(p) == p.frozenTime >= p.frozenDuration

\* if (minDist < margin) {...}: the slowdown, and the freezing if the draw
\* of Math.random() is below freezeFactor * 0.02
NearBoundary(p, freezeFactor, drawn, duration) ==
    LET slowed == (p.velocity * (100 - freezeFactor) * (100 - freezeFactor))
                     \div 10000
    IN IF ~p.isFrozen /\ drawn
       THEN [p EXCEPT !.isFrozen = TRUE, !.frozenTime = 0,
                      !.frozenDuration = duration,
                      !.originalVelocity = slowed, !.velocity = 0]
       ELSE [p EXCEPT !.velocity = slowed]

\* if (particle.isFrozen) {...}
UpdateFrozen(p, restore) ==
    IF ~p.isFrozen THEN p
    ELSE LET later == [p EXCEPT !.frozenTime = @ + FrozenStep]
         IN IF UnfreezeDue(later)
            THEN [later EXCEPT !.isFrozen = FALSE,
                               !.velocity = IF later.originalVelocity # -1
                                            THEN (later.originalVelocity * restore) \div 100
                                            ELSE @,
                               !.originalVelocity = -1]
            ELSE later

\* applyFreezeBoundary(particle, lakeSystem, factor): near tells whether the
\* particle is within the margin of the boundary of lakeSystem
ApplyFreezeBoundary(hasBoundary, near, freezeFactor, drawn, duration, restore) ==
    /\ flowParticle' =
          IF ~hasBoundary THEN flowParticle
          ELSE UpdateFrozen(IF near
                            THEN NearBoundary(flowParticle, freezeFactor, drawn,
                                              duration)
                            ELSE flowParticle,
                            restore)
    /\ lastCall' = [op |-> "applyFreezeBoundary",
                    arg |-> IF hasBoundary /\ near THEN freezeFactor ELSE 0,
                    result |-> IF ~hasBoundary THEN "return"
                               ELSE IF ~flowParticle.isFrozen /\ near /\ drawn
                               THEN "frozen"
                               ELSE IF flowParticle.isFrozen /\ ~flowParticle'.isFrozen
                               THEN "unfrozen"
                               ELSE "ok"]
    /\ UNCHANGED <<particlePool, held, sysVars, particle, qualityVars,
                   gridVars, renderVars, subscriberVars, viewportVars,
                   flowVars, loopVars, soloNoFlowParticle>>

\* The policy applied to the particle of a lake system that has a boundary
\* (a draw that a call does not use is given one value only)
FreezePolicyApplied ==
    \/ \E restore \in RestoreFactors :
          ApplyFreezeBoundary(TRUE, FALSE, 48, FALSE, 200000, restore)
    \/ \E freezeFactor \in FreezeFactors, restore \in RestoreFactors :
          ApplyFreezeBoundary(TRUE, TRUE, freezeFactor, FALSE, 200000, restore)
    \/ \E freezeFactor \in FreezeFactors, duration \in FrozenDurations :
          /\ ~flowParticle.isFrozen
          /\ ApplyFreezeBoundary(TRUE, TRUE, freezeFactor, TRUE, duration, 50)

\* The call returning at once for a lake system without a boundary
FreezePolicySkipped == ApplyFreezeBoundary(FALSE, FALSE, 48, FALSE, 200000, 50)

InitFreeze ==
    /\ InitCore /\ InitLodParticle /\ InitThresholds /\ InitLodQuery
    /\ InitFlowParticle /\ InitFluid /\ InitDevice /\ InitLate

NextFreeze == FreezePolicyApplied \/ FreezePolicySkipped

\* "as long as the policy keeps being applied": the frames go on calling
\* applyFreezeBoundary for the particle
SpecFreeze == InitFreeze /\ [][NextFreeze]_vars /\ WF_vars(FreezePolicyApplied)

-----------------------------------------------------------------------------
(* new QualityGovernor() on the devices a browser may report *)

DeviceProfiles ==
    [renderer : {"unknown", "Intel HD Graphics 620", "Intel Iris Xe Graphics",
                 "NVIDIA GeForce GTX 1060", "NVIDIA GeForce RTX 3080"},
     memory : {0, 2, 8},
     cores : {0, 2, 16},
     mobile : BOOLEAN]

\* The governor built by its constructor for the tier detected on the device
InitDetected ==
    /\ device \in DeviceProfiles
    /\ InitQuality({DetectDeviceTier(device)})
    /\ particlePool = NewParticlePool(PoolSize)
    /\ held = <<>>
    /\ systemOrder = <<>>
    /\ systems = <<>>
    /\ updateLog = <<>>
    /\ particle = NewParticle(0)
    /\ lastCall = NoCall
    /\ InitGrid
    /\ InitRender(<<>>)
    /\ InitComponents
    /\ InitLodParticle /\ InitThresholds /\ InitLodQuery /\ InitFlowParticle
    /\ InitFluid /\ InitLate

\* The frames of the transition loop the constructor started
NextDetected == TransitionFrame({})

SpecDetected == InitDetected /\ [][NextDetected]_vars

-----------------------------------------------------------------------------
(* FluidSimulation.update, pass by pass *)

fluidRest == <<particlePool, held, sysVars, particle, qualityVars, gridVars,
               renderVars, subscriberVars, viewportVars, flowVars, loopVars,
               soloNoFluid>>

\* Grid cells forces are added at: two interior cells and one on an edge
ForceCells == {<<1, 1>>, <<2, 1>>, <<0, 2>>}
ForceValues == {-4, 6}

\* addVelocity(x, y, velX, velY) with the default radius 1: the falloff is 1
\* at the cell of the point and 0 at the four cells beside it
AddVelocity(cell, velX, velY) ==
    /\ fluid.pass = 0
    /\ fluid.forces < MaxFluidForces
    /\ fluid' = [fluid EXCEPT !.velocityX[cell] = @ + velX,
                              !.velocityY[cell] = @ + velY,
                              !.forces = @ + 1,
                              !.output = <<>>]
    /\ lastCall' = [op |-> "addVelocity", arg |-> velX, result |-> "ok"]
    /\ UNCHANGED fluidRest

\* The passes of one round of the loop of update(), in order
FluidPassDone(f) ==
    IF f.pass = 7 THEN [f EXCEPT !.pass = 0, !.updates = @ + 1]
    ELSE [f EXCEPT !.pass = @ + 1]

\* this.diffuse(1, prevVelocityX, velocityX, viscosity, dt),
\* this.diffuse(2, prevVelocityY, velocityY, viscosity, dt) and
\* this.diffuse(0, prevDensity, density, diffusion, dt)
FluidDiffuse ==
    /\ fluid.pass \in {0, 1, 6}
    /\ fluid.updates < MaxFluidUpdates
    /\ fluid' = FluidPassDone(
          IF fluid.pass = 0
          THEN [fluid EXCEPT
                   !.prevVelocityX = Diffuse(1, fluid.prevVelocityX,
                                             fluid.velocityX, Viscosity),
                   !.output = <<[field |-> "prevVelocityX", b |-> 1]>>]
          ELSE IF fluid.pass = 1
          THEN [fluid EXCEPT
                   !.prevVelocityY = Diffuse(2, fluid.prevVelocityY,
                                             fluid.velocityY, Viscosity),
                   !.output = <<[field |-> "prevVelocityY", b |-> 2]>>]
          ELSE [fluid EXCEPT
                   !.prevDensity = Diffuse(0, fluid.prevDensity, fluid.density,
                                           Diffusion),
                   !.output = <<[field |-> "prevDensity", b |-> 0]>>])
    /\ lastCall' = [op |-> "diffuse", arg |-> fluid.pass, result |-> "ok"]
    /\ UNCHANGED fluidRest

\* this.project(prevVelocityX, prevVelocityY, velocityX, velocityY) and
\* this.project(velocityX, velocityY, prevVelocityX, prevVelocityY)
FluidProject ==
    /\ fluid.pass \in {2, 5}
    /\ fluid' = FluidPassDone(
          IF fluid.pass = 2
          THEN LET r == Project(fluid.prevVelocityX, fluid.prevVelocityY,
                                fluid.velocityX, fluid.velocityY)
               IN [fluid EXCEPT
                      !.prevVelocityX = r.velocX, !.prevVelocityY = r.velocY,
                      !.velocityX = r.p, !.velocityY = r.div,
                      !.output = <<[field |-> "prevVelocityX", b |-> 1],
                                   [field |-> "prevVelocityY", b |-> 2]>>]
          ELSE LET r == Project(fluid.velocityX, fluid.velocityY,
                                fluid.prevVelocityX, fluid.prevVelocityY)
               IN [fluid EXCEPT
                      !.velocityX = r.velocX, !.velocityY = r.velocY,
                      !.prevVelocityX = r.p, !.prevVelocityY = r.div,
                      !.output = <<[field |-> "velocityX", b |-> 1],
                                   [field |-> "velocityY", b |-> 2]>>])
    /\ lastCall' = [op |-> "project", arg |-> fluid.pass, result |-> "ok"]
    /\ UNCHANGED fluidRest

\* this.advect(1, velocityX, prevVelocityX, prevVelocityX, prevVelocityY, dt),
\* this.advect(2, velocityY, prevVelocityY, prevVelocityX, prevVelocityY, dt)
\* and this.advect(0, density, prevDensity, velocityX, velocityY, dt)
FluidAdvect ==
    /\ fluid.pass \in {3, 4, 7}
    /\ fluid' = FluidPassDone(
          IF fluid.pass = 3
          THEN [fluid EXCEPT
                   !.velocityX = Advect(1, fluid.velocityX, fluid.prevVelocityX,
                                        fluid.prevVelocityX, fluid.prevVelocityY),
                   !.output = <<[field |-> "velocityX", b |-> 1]>>]
          ELSE IF fluid.pass = 4
          THEN [fluid EXCEPT
                   !.velocityY = Advect(2, fluid.velocityY, fluid.prevVelocityY,
                                        fluid.prevVelocityX, fluid.prevVelocityY),
                   !.output = <<[field |-> "velocityY", b |-> 2]>>]
          ELSE [fluid EXCEPT
                   !.density = Advect(0, fluid.density, fluid.prevDensity,
                                      fluid.velocityX, fluid.velocityY),
                   !.output = <<[field |-> "density", b |-> 0]>>])
    /\ lastCall' = [op |-> "advect", arg |-> fluid.pass, result |-> "ok"]
    /\ UNCHANGED fluidRest

InitFluidAlone ==
    /\ InitCore /\ InitLodParticle /\ InitThresholds /\ InitLodQuery
    /\ InitFlowParticle /\ InitFluid /\ InitDevice /\ InitLate

NextFluid ==
    \/ \E cell \in ForceCells, velX, velY \in ForceValues :
          AddVelocity(cell, velX, velY)
    \/ FluidDiffuse
    \/ FluidProject
    \/ FluidAdvect

SpecFluid == InitFluidAlone /\ [][NextFluid]_vars

-----------------------------------------------------------------------------
(* Claims about error handling *)

\* C15: after a broadcast in which subscribers threw, every subscriber has
\* received that same update, and the frame left the governor's fields as
\* it leaves them without a throw and the subscriber set as it was.
C15_ThrowingSubscriberIsolated ==
    /\ [](lastCall.op = "tick" /\ lastCall.result # "idle"
            => \A n \in SubscriberSet(subscribers) : received[n] = notified)
    /\ [][lastCall'.op = "tick"
            => /\ subscribers' = subscribers
               /\ governor'.currentLevel
                    \in {governor.currentLevel, governor.targetLevel}
               /\ governor'.targetLevel \in {governor.targetLevel, NULL}
               /\ governor'.transitionProgress
                    \in {governor.transitionProgress,
                         governor.transitionProgress + TransitionSpeed}]_vars

\* The first of two subscribers threw during the broadcast that completed
\* a transition, and the second has the update
C15_Witness ==
    /\ lastCall.op = "tick" /\ lastCall.result = "complete"
    /\ Len(subscribers) = 2
    /\ subscribers[1] \in threw
    /\ received[subscribers[2]] = notified

\* C16: after a map move or zoom every registered viewport listener has
\* been notified of it, whether or not another listener threw.
C16_ViewportListenersAllNotified ==
    dispatch.event \in {"move", "zoom"}
        => /\ ~dispatch.escaped
           /\ \A i \in 1..Len(viewportListeners) :
                 viewportListeners[i] \in dispatch.called

\* C17: setQualityLevel with a name that has no preset and setActivePattern
\* with a name that was not registered return false and change nothing, and
\* the pattern map names registered patterns only.
C17_UnknownNamesRejected ==
    /\ [](\A l \in DOMAIN activePatterns : activePatterns[l] \in flowPatterns)
    /\ [][\A lake \in FlowLakes, name \in CalledPatternNames \ flowPatterns :
            SetActivePattern(lake, name)
                => /\ lastCall'.result = "false"
                   /\ activePatterns' = activePatterns
                   /\ flowPatterns' = flowPatterns]_vars
    /\ [][\A level \in (CalledLevels \cup ObjectPrototypeNames) \ LevelSet :
            SetQualityLevel(level)
                => /\ lastCall'.result = "false"
                   /\ governor' = governor]_vars

\* C18: StateManager.setQualityLevel with an unknown tier changes neither
\* StateManager.qualityLevel nor the governor's currentLevel and
\* targetLevel, and dispatches no qualityChanged event.
C18_UnknownTierIsNoOp ==
    [][\A level \in CalledLevels \ LevelSet :
         RequestQualityLevel(level)
            => /\ stateManager'.qualityLevel = stateManager.qualityLevel
               /\ stateManager'.lastEvent = stateManager.lastEvent
               /\ governor'.currentLevel = governor.currentLevel
               /\ governor'.targetLevel = governor.targetLevel]_vars

\* C19: whether or not init or reset throws, activeCount is the number of
\* particles handed to the caller and not released, and a particle leaves
\* the free list only into the caller's hands.
C19_BookkeepingSurvivesThrow ==
    /\ [](particlePool.activeCount = Len(held))
    /\ [][lastCall'.op = "acquire"
            => IdsOf(particlePool.pool)
                 \subseteq IdsOf(particlePool'.pool) \cup IdsOf(held')]_vars

\* C20: once the application has been cleaned up no frame of the main loop
\* and no frame of the governor's transitionLoop runs, and once the event
\* handler has been disposed no frame of its momentum loop runs.
C20_LoopsStopAfterTeardown ==
    /\ [][loops.cleaned
            => ~(\E delta \in Deltas, low \in BOOLEAN :
                    UpdateParticleSystems(delta, low))]_vars
    /\ [][loops.cleaned => ~TransitionLoop]_vars
    /\ [][loops.handlerDisposed => ~MomentumFrame]_vars

-----------------------------------------------------------------------------
(* Claims about disposal, particle ages and pool counters *)

\* C21: dispose on a ParticleSystem whose list dispose has emptied releases
\* nothing to the pool and changes nothing, and dispose on an EventHandler,
\* disposed before or not, raises no error and leaves it disposed.
C21_DisposeIdempotent ==
    /\ [][\A lake \in DOMAIN systems :
            (systems[lake].particles = <<>> /\ ~renderer[lake].registered
                /\ Dispose(lake))
            => (particlePool' = particlePool /\ systems' = systems
                  /\ renderer' = renderer)]_vars
    /\ [][DisposeHandler
            => (lastCall'.result = "ok" /\ loops'.handlerDisposed)]_vars

\* C22: a particle that init, update and reset have acted on has
\* 0 <= age <= lifespan.
C22_AgeWithinLifespan ==
    lastCall.op \in {"init", "update", "reset"}
        => (0 <= particle.age /\ particle.age <= particle.lifespan)

\* C23: whatever acquire and release calls have been made, activeCount is
\* not negative.
C23_ActiveCountNotNegative == particlePool.activeCount >= 0

\* C24: setLODLevel leaves size and opacity as they are, and after a
\* setLODLevel(1), whatever calls came before, displaySize is size and
\* displayOpacity is opacity.
C24_LodReversible ==
    /\ [][lastCall'.op = "setLODLevel"
            => (lodParticle'.size = lodParticle.size
                  /\ lodParticle'.opacity = lodParticle.opacity)]_vars
    /\ []((lastCall.op = "setLODLevel" /\ lastCall.arg = 100)
            => (lodParticle.displaySize = Hundredths(lodParticle.size)
                  /\ lodParticle.displayOpacity
                        = Hundredths(lodParticle.opacity)))

\* setLODLevel(1) came after setLODLevel(0.1), which had dimmed and shrunk
\* the particle
C24_Witness ==
    /\ lastCall.op = "setLODLevel" /\ lastCall.arg = 100
    /\ lodParticle.previous = 10
    /\ lodParticle.lodLevel = 100
    /\ lodParticle.displaySize = Hundredths(lodParticle.size)

-----------------------------------------------------------------------------
(* Claims about the culling metrics and the optimizer's distances *)

\* C25: in every frame, before clear(), the culled-particle count plus the
\* number of particles the query returned as visible equals the number of
\* particles inserted in that frame, however many queries the frame made.
C25_CulledPlusVisibleIsInserted ==
    lastCall.op = "query" =>
        spatialGrid.culledParticles + Len(queryResult.result)
            = spatialGrid.particles

\* The code names no floor; the nearest distance of the LOD table is the
\* least of the distances the optimizer itself works with
CullingFloor == TenThousandths(LodDistanceThresholds[1].distance)

\* C26: whatever adaptToPerformance calls are made, the culling distance
\* stays between a positive floor and the configured distance: a low-FPS
\* call takes 20% off it but not below the floor, a call above 90% of the
\* target FPS adds 10% but not above the configured distance.
C26_DistanceWithinFloorAndCeiling ==
    /\ CullingFloor <= thresholds.cullingDistance
    /\ thresholds.cullingDistance <= TenThousandths(CullingDistance)

FirstDetail == LodLevelOf(LodDistanceThresholds[1].detail)
LastDetail == LodLevelOf(LodDistanceThresholds[Len(LodDistanceThresholds)].detail)
LastDistance == LodDistanceThresholds[Len(LodDistanceThresholds)].distance

\* C27: calculateLODLevel does not increase with the distance, gives the
\* first detail of the table at distance 0 and the last detail at every
\* distance beyond the last threshold.
C27_LodNonIncreasing ==
    /\ lodQuery.previousDistance # -1
       /\ lodQuery.previousDistance <= lodQuery.distance
          => lodQuery.previousLevel >= lodQuery.level
    /\ lodQuery.distance = 0 => lodQuery.level = FirstDetail
    /\ lodQuery.distance > LastDistance => lodQuery.level = LastDetail

\* a distance between two thresholds after a nearer one between two others:
\* both levels interpolated, the farther one lower
C27_Witness ==
    /\ lodQuery.previousDistance = 1500
    /\ lodQuery.distance = 3500
    /\ lodQuery.previousLevel > lodQuery.level
    /\ lodQuery.level < LodLevelOf(50) /\ lodQuery.level > LodLevelOf(25)

-----------------------------------------------------------------------------
(* Claims about frozen particles, the fluid boundary and the device tier *)

\* C28: a particle the freeze policy froze has a frozen duration between
\* 2000 and 5000 ms, stays frozen while its accumulated frozen time is below
\* that duration, is unfrozen by the call at which the time first reaches
\* it, and so is eventually unfrozen while the policy keeps being applied.
C28_FrozenForItsDuration ==
    /\ [](flowParticle.isFrozen =>
             /\ 200000 <= flowParticle.frozenDuration
             /\ flowParticle.frozenDuration <= 500000
             /\ flowParticle.frozenTime < flowParticle.frozenDuration)
    /\ [][flowParticle.isFrozen /\ ~flowParticle'.isFrozen =>
             /\ flowParticle'.frozenTime >= flowParticle'.frozenDuration
             /\ flowParticle.frozenTime < flowParticle.frozenDuration
             /\ flowParticle'.frozenTime = flowParticle.frozenTime + FrozenStep
             /\ flowParticle'.frozenDuration = flowParticle.frozenDuration]_vars
    /\ (flowParticle.isFrozen ~> ~flowParticle.isFrozen)

\* the particle was unfrozen by the call at which its frozen time reached
\* its duration exactly
C28_Witness ==
    /\ lastCall.op = "applyFreezeBoundary" /\ lastCall.result = "unfrozen"
    /\ ~flowParticle.isFrozen
    /\ flowParticle.frozenTime = flowParticle.frozenDuration
    /\ flowParticle.frozenDuration = 120 * FrozenStep

\* The boundary rule for the array x written with boundary type b
EdgesMirror(b, x) ==
    LET n == FluidSize - 1
    IN /\ \A i \in 1..n - 1 :
            /\ x[<<i, 0>>] = IF b = 2 THEN -x[<<i, 1>>] ELSE x[<<i, 1>>]
            /\ x[<<i, n>>] = IF b = 2 THEN -x[<<i, n - 1>>] ELSE x[<<i, n - 1>>]
       /\ \A j \in 1..n - 1 :
            /\ x[<<0, j>>] = IF b = 1 THEN -x[<<1, j>>] ELSE x[<<1, j>>]
            /\ x[<<n, j>>] = IF b = 1 THEN -x[<<n - 1, j>>] ELSE x[<<n - 1, j>>]
       /\ 2 * x[<<0, 0>>] = x[<<1, 0>>] + x[<<0, 1>>]
       /\ 2 * x[<<0, n>>] = x[<<1, n>>] + x[<<0, n - 1>>]
       /\ 2 * x[<<n, 0>>] = x[<<n - 1, 0>>] + x[<<n, 1>>]
       /\ 2 * x[<<n, n>>] = x[<<n - 1, n>>] + x[<<n, n - 1>>]

\* C29: after every diffuse, advect and project pass each non-corner edge
\* cell of the array the pass wrote equals the interior cell beside it,
\* negated for the velocity component perpendicular to the edge, and each
\* corner is the average of the two edge cells beside it.
C29_BoundaryMirrorsInterior ==
    \A k \in 1..Len(fluid.output) :
        EdgesMirror(fluid.output[k].b, fluid[fluid.output[k].field])

\* a project pass left a horizontal velocity that is not zero on the left
\* edge and the opposite of the cell beside it
C29_Witness ==
    /\ lastCall.op = "project"
    /\ \E j \in 1..FluidSize - 2 :
          /\ fluid.velocityX[<<0, j>>] # 0
          /\ fluid.velocityX[<<0, j>>] = -fluid.velocityX[<<1, j>>]
    /\ fluid.output[1] = [field |-> "velocityX", b |-> 1]

\* The low-end profile: GPU unknown, device memory 2, 2 logical cores
LowEndDevice ==
    device.renderer = "unknown" /\ device.memory = 2 /\ device.cores = 2

\* C30: a QualityGovernor constructed on the low-end profile has minimal or
\* low as its current tier from construction on, never high or ultra.
C30_LowEndStartsLow ==
    LowEndDevice => governor.currentLevel \in {"minimal", "low"}

-----------------------------------------------------------------------------
(* LakeManager: switching the active lake *)

\* lakes[lakeName] of the data model is an object
HasLake(lakeName) == LakeTypeOf(lakeName) # "Unknown"

\* Names handed to setActiveLake: lakes with a particle system, a lake
\* without one, and a name that is no key of lakes
SwitchNames == {"wular", "pangong", "pushkar", "nainital"}

\* toggleParticleSystems leaving the previous system as it is
ToggleParticleSystems_KeepOld(sysmap, pp, newLake, oldLake, draws, otherIds) ==
    IF newLake \in DOMAIN sysmap /\ ~sysmap[newLake].active
    THEN LET r == SystemActivate(sysmap[newLake], pp, draws, otherIds)
         IN [systems |-> [sysmap EXCEPT ![newLake] = r.sys], pp |-> r.pp]
    ELSE [systems |-> sysmap, pp |-> pp]

\* toggleParticleSystems(newLake, oldLake): [systems, pp]
ToggleParticleSystems(sysmap, pp, newLake, oldLake, draws, otherIds) ==
    LET off == IF oldLake \in DOMAIN sysmap
               THEN [sysmap EXCEPT ![oldLake].active = FALSE]
               ELSE sysmap
    IN IF newLake \in DOMAIN off /\ ~off[newLake].active
       THEN LET r == SystemActivate(off[newLake], pp, draws, otherIds)
            IN [systems |-> [off EXCEPT ![newLake] = r.sys], pp |-> r.pp]
       ELSE [systems |-> off, pp |-> pp]

\* the particles activate() of the new lake's system will generate
ToggleNeeds(sysmap, newLake, oldLake) ==
    IF newLake \in DOMAIN sysmap /\ (newLake = oldLake \/ ~sysmap[newLake].active)
    THEN ActivateNeeds(sysmap[newLake])
    ELSE 0

\* flyToLake(lakeName): a pending timer is cleared, isTransitioning is set,
\* and reading lake.center of an undefined lake throws before setTimeout
FlyToLake(lm, lakeName) ==
    LET started == [lm EXCEPT !.flyTimeout = IF @ = "pending" THEN "cleared" ELSE @,
                              !.isTransitioning = TRUE]
    IN IF HasLake(lakeName) THEN [started EXCEPT !.flyTimeout = "pending"]
       ELSE started

\* LakeManager.setActiveLake(lakeName), StateManager.setActiveLake included
SetActiveLake(lakeName) ==
    /\ IF lakeName = lakeManager.activeLakeName \/ lakeManager.isTransitioning
       THEN /\ lastCall' = [op |-> "setActiveLake", arg |-> 0, result |-> "ignored"]
            /\ UNCHANGED <<lakeManager, systems, particlePool>>
       ELSE \E draws \in LifespanDraws(ToggleNeeds(systems, lakeName,
                                                   lakeManager.activeLakeName)) :
               LET t == ToggleParticleSystems(systems, particlePool, lakeName,
                                              lakeManager.activeLakeName, draws,
                                              OtherIds(lakeName))
               IN /\ systems' = t.systems
                  /\ particlePool' = t.pp
                  /\ lakeManager' =
                        FlyToLake([lakeManager EXCEPT !.activeLakeName = lakeName],
                                  lakeName)
                  /\ lastCall' = [op |-> "setActiveLake", arg |-> 0,
                                  result |-> IF HasLake(lakeName) THEN "switched"
                                             ELSE "threw"]
    /\ UNCHANGED <<held, systemOrder, updateLog, particle, qualityVars, gridVars,
                   renderVars, subscriberVars, viewportVars, flowVars, loopVars,
                   soloNoLakeManager>>

\* The callback of the timer flyToLake set
FlyTimeoutFires ==
    /\ lakeManager.flyTimeout = "pending"
    /\ lakeManager' = [lakeManager EXCEPT !.isTransitioning = FALSE,
                                          !.flyTimeout = "fired"]
    /\ lastCall' = [op |-> "flyTimeout", arg |-> 0, result |-> "ok"]
    /\ UNCHANGED <<particlePool, held, sysVars, particle, qualityVars, gridVars,
                   renderVars, subscriberVars, viewportVars, flowVars, loopVars,
                   soloNoLakeManager>>

\* onMapLoaded: the system of wular is built and activated, and another
\* lake has a system that createVisualization built
InitLakeSwitch ==
    /\ InitSolo
    /\ InitQuality({"high"})
    /\ held = <<>>
    /\ systemOrder = <<"wular", "pangong">>
    /\ \E draws \in LifespanDraws(NewParticleSystem("wular").particleLimit) :
          LET r == SystemActivate(NewParticleSystem("wular"),
                                  NewParticlePool(PoolSize), draws, {})
          IN /\ particlePool = r.pp
             /\ systems = [l \in {"wular", "pangong"} |->
                              IF l = "wular" THEN r.sys ELSE NewParticleSystem(l)]
    /\ updateLog = [l \in {"wular", "pangong"} |-> NoLog]
    /\ particle = NewParticle(0)
    /\ lastCall = NoCall
    /\ InitGrid
    /\ InitRender(<<"wular", "pangong">>)
    /\ InitComponents

NextLakeSwitch ==
    \/ \E lakeName \in SwitchNames : SetActiveLake(lakeName)
    \/ FlyTimeoutFires

\* a timer that was set and not cleared fires
SpecLakeSwitch ==
    InitLakeSwitch /\ [][NextLakeSwitch]_vars /\ WF_vars(FlyTimeoutFires)

-----------------------------------------------------------------------------
(* BatchProcessor *)

\* Lengths of the items arrays handed to addBatch: empty, below, at and
\* above the chunk of 100
BatchLengths == {0, 60, 100, 150, 250}

NoFrame == [batch |-> NoBatch, startIdx |-> -1]

RECURSIVE ProcessNextBatch(_)

\* processChunk(items, processor, startIdx, onComplete) for the items of
\* `batch`: the processor is called for startIdx .. endIdx - 1 in order;
\* then the next chunk is left to an animation frame, or onComplete is
\* called and processNextBatch goes on in the same run
ProcessChunk(bp, batch, startIdx) ==
    LET endIdx == Min(startIdx + BatchSize, batch.size)
        handed == [bp EXCEPT
                     !.log = IF endIdx > startIdx
                             THEN Append(@, [batch |-> batch.id, kind |-> "items",
                                             from |-> startIdx, to |-> endIdx])
                             ELSE @,
                     !.runItems = @ + (endIdx - startIdx),
                     !.currentBatch.processed = endIdx]
    IN IF endIdx < batch.size
       THEN [handed EXCEPT !.frame = [batch |-> batch, startIdx |-> endIdx]]
       ELSE ProcessNextBatch(
                [handed EXCEPT
                   !.log = Append(@, [batch |-> batch.id, kind |-> "complete",
                                      from |-> endIdx, to |-> endIdx])])

\* processNextBatch()
ProcessNextBatch(bp) ==
    IF bp.batches = <<>> THEN [bp EXCEPT !.isProcessing = FALSE]
    ELSE ProcessChunk([bp EXCEPT !.isProcessing = TRUE,
                                 !.currentBatch = Head(bp.batches),
                                 !.batches = Tail(bp.batches)],
                      Head(bp.batches), 0)

\* addBatch starting the queue without looking at isProcessing
AddBatchTo_AlwaysStart(bp, length) ==
    ProcessNextBatch(
        [bp EXCEPT !.batches = Append(@, [id |-> Len(bp.sizes) + 1,
                                          size |-> length, processed |-> 0]),
                   !.sizes = Append(@, length),
                   !.runItems = 0])

\* addBatch(items, processor, onComplete) with items of the given length
AddBatchTo(bp, length) ==
    LET pushed == [bp EXCEPT
                     !.batches = Append(@, [id |-> Len(bp.sizes) + 1,
                                            size |-> length, processed |-> 0]),
                     !.sizes = Append(@, length),
                     !.runItems = 0]
    IN IF ~pushed.isProcessing THEN ProcessNextBatch(pushed) ELSE pushed

batchRest == <<particlePool, held, sysVars, particle, qualityVars, gridVars,
               renderVars, subscriberVars, viewportVars, flowVars, loopVars,
               soloNoBatchProcessor>>

AddBatch(length) ==
    /\ Len(batchProcessor.sizes) < MaxBatches
    /\ batchProcessor' = AddBatchTo(batchProcessor, length)
    /\ lastCall' = [op |-> "addBatch", arg |-> length, result |-> "ok"]
    /\ UNCHANGED batchRest

\* The animation frame callback processChunk requested
BatchFrame ==
    /\ batchProcessor.frame # NoFrame
    /\ batchProcessor' =
          ProcessChunk([batchProcessor EXCEPT !.frame = NoFrame, !.runItems = 0],
                       batchProcessor.frame.batch, batchProcessor.frame.startIdx)
    /\ lastCall' = [op |-> "batchFrame", arg |-> batchProcessor.frame.startIdx,
                    result |-> "ok"]
    /\ UNCHANGED batchRest

NextBatch ==
    \/ \E length \in BatchLengths : AddBatch(length)
    \/ BatchFrame

\* the browser runs a requested animation frame callback
SpecBatch == InitAlone /\ [][NextBatch]_vars /\ WF_vars(BatchFrame)

-----------------------------------------------------------------------------
(* The mouse handlers of the EventHandler and its momentum frames *)

NextMomentum ==
    \/ HandleMouseDown
    \/ \E m \in DragMomenta : HandleMouseMove(m)
    \/ HandleMouseUp
    \/ MomentumFrame

SpecMomentum == InitAlone /\ [][NextMomentum]_vars

-----------------------------------------------------------------------------
(* Claims about the pool's statistics *)

\* C31: in every pool state in which at least one acquire has been made,
\* getStats().reuseRatio is totalReused / (totalCreated + totalReused).
C31_ReuseRatioIsShareOfReuses ==
    Acquires(particlePool) > 0 =>
        GetStats(particlePool).reuseRatio =
            (particlePool.totalReused * 100) \div Acquires(particlePool)

\* C32: an acquire call adds one to totalCreated exactly when the free list
\* was empty and a particle had to be constructed, and one to totalReused
\* exactly when it popped a particle of the free list; so each counter is the
\* number of acquire calls of its kind.
C32_CountersCountTheirKind ==
    [][lastCall'.op = "acquire" /\ particlePool' # particlePool =>
          IF Len(particlePool.pool) = 0
          THEN /\ particlePool'.totalCreated = particlePool.totalCreated + 1
               /\ particlePool'.totalReused = particlePool.totalReused
          ELSE /\ particlePool'.totalReused = particlePool.totalReused + 1
               /\ particlePool'.totalCreated = particlePool.totalCreated]_vars

-----------------------------------------------------------------------------
(* Claims about the tier a caller asked the governor for *)

\* the last setQualityLevel call the caller makes was for this level and
\* returned true
LastSetAccepted(level) ==
    /\ lastCall.op = "setQualityLevel" /\ lastCall.result = "true"
    /\ lastCall.arg = IndexOf(level)
    /\ setCalls = MaxSetCalls

\* C33: when setQualityLevel(L) returns true and no later setQualityLevel
\* call is made, the governor eventually has currentLevel = L and no target
\* level, also when a transition to another tier was in progress at the call.
C33_AcceptedLevelIsReached ==
    \A level \in LevelSet :
        LastSetAccepted(level) ~>
            (governor.currentLevel = level /\ governor.targetLevel = NULL)

-----------------------------------------------------------------------------
(* Claims about what is drawn after a deactivation *)

\* C34: after a render, the draw range of the renderer covers only particles
\* of a system that is active at that render; a deactivated system has none
\* of its particles drawn, also when no active system has a particle left.
C34_OnlyActiveSystemsDrawn ==
    [][\A lake \in DOMAIN systems :
          Render(lake) =>
             Drawn(lake)' \subseteq
                (IF systems[lake].active THEN IdsOf(systems[lake].particles)
                 ELSE {})]_vars

-----------------------------------------------------------------------------
(* Claims about the display size of a reused particle *)

\* C35: after setLODLevel(level) returns, displaySize is size * level for
\* the size the particle has now, whatever happened to the particle since
\* the previous setLODLevel call.
C35_DisplaySizeFollowsSize ==
    lastCall.op = "setLODLevel"
    => lodParticle.displaySize = lodParticle.size * lastCall.arg

-----------------------------------------------------------------------------
(* Claims about switching the active lake *)

\* C36: every lake switch setActiveLake starts ends: whatever name was
\* passed in, isTransitioning is false again once the fly-to delay has
\* elapsed, so that later requests are not ignored forever.
C36_EverySwitchEnds ==
    lakeManager.isTransitioning ~> ~lakeManager.isTransitioning

\* C37: after any sequence of setActiveLake calls and timer firings at most
\* one particle system is active, and an active system is the one of the
\* lake StateManager reports as active.
C37_OnlyActiveLakeRuns ==
    /\ Cardinality({l \in DOMAIN systems : systems[l].active}) <= 1
    /\ \A l \in DOMAIN systems :
          systems[l].active => l = lakeManager.activeLakeName

\* the switch from wular to pangong was made: the system of pangong runs
\* and the system of wular, which keeps its particles, does not
C37_Witness ==
    /\ lastCall.op = "setActiveLake" /\ lastCall.result = "switched"
    /\ lakeManager.activeLakeName = "pangong"
    /\ systems["pangong"].active /\ Len(systems["pangong"].particles) > 0
    /\ ~systems["wular"].active /\ Len(systems["wular"].particles) > 0

-----------------------------------------------------------------------------
(* Claims about the BatchProcessor *)

\* onComplete of batch b has run
Completed(b) ==
    \E k \in 1..Len(batchProcessor.log) :
        batchProcessor.log[k].batch = b /\ batchProcessor.log[k].kind = "complete"

\* The calls made so far are those of the batches in the order they were
\* added, each batch's items from index 0 on without a gap or a repeat,
\* then its onComplete, then the next batch
LogInOrder ==
    LET log == batchProcessor.log
        sizes == batchProcessor.sizes
    IN /\ log # <<>> => (log[1].batch = 1 /\ log[1].from = 0)
       /\ \A k \in 1..Len(log) :
             /\ log[k].batch \in 1..Len(sizes)
             /\ log[k].to <= sizes[log[k].batch]
             /\ log[k].kind = "complete" => log[k].from = sizes[log[k].batch]
             /\ log[k].kind = "items" => log[k].from < log[k].to
       /\ \A k \in 1..Len(log) - 1 :
             IF log[k].kind = "complete"
             THEN log[k + 1].batch = log[k].batch + 1 /\ log[k + 1].from = 0
             ELSE log[k + 1].batch = log[k].batch /\ log[k + 1].from = log[k].to

\* C38: with no call to clear, every item of every batch added is handed
\* to the batch's processor exactly once, in index order; the batches are
\* processed in the order they were added, and each batch's onComplete runs
\* exactly once, after its last item and before the first item of the next.
C38_BatchesInOrderAndWhole ==
    /\ []LogInOrder
    /\ \A b \in 1..MaxBatches :
          (Len(batchProcessor.sizes) >= b) ~> Completed(b)

\* a batch of three chunks was completed over two frames, a batch added
\* meanwhile followed it, and nothing is left to do
C38_Witness ==
    /\ Len(batchProcessor.sizes) >= 2
    /\ batchProcessor.sizes[1] = 250 /\ batchProcessor.sizes[2] = 150
    /\ Completed(1) /\ Completed(2)
    /\ ~batchProcessor.isProcessing /\ batchProcessor.frame = NoFrame
    /\ lastCall.op = "batchFrame"

\* C39: within one synchronous run, an addBatch call or an animation frame
\* callback, at most 100 items are handed to processors, whatever batches
\* are queued.
C39_RunHandsAtMostAChunk ==
    batchProcessor.runItems <= BatchSize

-----------------------------------------------------------------------------
(* Claims about the momentum loop *)

\* C40: at most one momentum animation loop of the EventHandler is
\* scheduled at any time, also when the mouse is pressed, dragged and
\* released again while an earlier loop is still decaying.
C40_OneMomentumLoop == loops.momentumLoops <= 1

=============================================================================
